---- MODULE Spec2Model ----
(***************************************************************************)
(* A model of the Sudoku engine (src/src/utils/sudoku-engine.js), of the   *)
(* GameController that plays a game with it                                *)
(* (src/src/components/sudoku-grid.js) and of the StorageManager that      *)
(* keeps the games in localStorage (src/unnamed/part_001).                 *)
(*                                                                         *)
(* A grid is a function  [0..8 -> [0..8 -> 0..9]]  indexed grid[row][col]  *)
(* as in the source; 0 is the empty cell.  The pure functions of the       *)
(* engine are operators computed the way the code computes them; the       *)
(* recursive, randomised solveSudoku and the removal loop of               *)
(* generatePuzzle are state machines that take one step of the code at a   *)
(* time, so that the intermediate grids are states too.  A method of the   *)
(* controller is one step: it takes the heap, the gameState and the        *)
(* storage to what they are when it returns.                               *)
(***************************************************************************)
EXTENDS Integers, Sequences, FiniteSets, TLC

VARIABLES
    op,         \* the engine operation in progress
    pc,         \* the position inside that operation
    grid,       \* the grid the operation works on (mutated in place)
    entry,      \* the grid as it was when the operation was entered
    stack,      \* the frames of the solveSudoku recursion, innermost last
    retval,     \* the value returned by the call that returned last
    rng,        \* the state of the random source behind Math.random
    args,       \* the other arguments of the operation (row, col, num, difficulty, solution, grid written)
    gen,        \* the locals of generatePuzzle (solution, positions, counters) and the object it returns
    uniq,       \* the working copy and the solutions array of hasUniqueSolution
    heap,       \* the row arrays allocated so far: heap[a] is the row at address a
    refs,       \* the grid objects by name: a grid is the sequence of its row addresses
    game,       \* the gameState of the GameController, and whether its timer runs
    clock,      \* the value of Date.now(), in milliseconds
    env,        \* what the player does: the cells and numbers entered, the moves left
    storage     \* localStorage: the current game and the list of the saved games

vars == <<op, pc, grid, entry, stack, retval, rng, args, gen, uniq, heap, refs,
          game, clock, env, storage>>

(***************************************************************************)
(* Constants of the engine (constructor, lines 6-17).                      *)
(***************************************************************************)
GRID_SIZE == 9
BOX_SIZE == 3
EMPTY_CELL == 0

DIFFICULTY_CONFIG ==
    [easy   |-> [filledCells |-> 35],
     medium |-> [filledCells |-> 28],
     hard   |-> [filledCells |-> 22]]

Difficulties == {"easy", "medium", "hard"}

Idx == 0 .. (GRID_SIZE - 1)
Digits == 1 .. GRID_SIZE
Positions == [row : Idx, col : Idx]

Pos(r, c) == [row |-> r, col |-> c]

(***************************************************************************)
(* createEmptyGrid, copyGrid.  In the specifications of the algorithms a   *)
(* grid is a value and copyGrid is the cell-for-cell copy; that the copy   *)
(* shares no row array with the original is checked on the heap, with      *)
(* copyGridOnHeap below.                                                   *)
(***************************************************************************)
createEmptyGrid == [r \in Idx |-> [c \in Idx |-> EMPTY_CELL]]

copyGrid(g) == [r \in Idx |-> [c \in Idx |-> g[r][c]]]

\* The assignment grid[row][col] = v.
SetCell(g, r, c, v) == [g EXCEPT ![r][c] = v]

(***************************************************************************)
(* isValidMove: the three scans of the code.  Each scan covers the whole   *)
(* row, column and box, the cell (row, col) included.                      *)
(***************************************************************************)
RowHas(g, row, num) == \E x \in 0 .. (GRID_SIZE - 1) : g[row][x] = num

ColHas(g, col, num) == \E x \in 0 .. (GRID_SIZE - 1) : g[x][col] = num

BoxStart(k) == (k \div BOX_SIZE) * BOX_SIZE

BoxHas(g, row, col, num) ==
    \E i \in 0 .. (BOX_SIZE - 1) : \E j \in 0 .. (BOX_SIZE - 1) :
        g[BoxStart(row) + i][BoxStart(col) + j] = num

\* Mutant: the box scan (lines 59-68) left out.
isValidMove_NoBox(g, row, col, num) ==
    /\ ~RowHas(g, row, num)
    /\ ~ColHas(g, col, num)

\* Mutant: the column scan (lines 52-56) left out.
isValidMove_NoColumn(g, row, col, num) ==
    /\ ~RowHas(g, row, num)
    /\ ~BoxHas(g, row, col, num)

isValidMove(g, row, col, num) ==
    /\ ~RowHas(g, row, num)
    /\ ~ColHas(g, col, num)
    /\ ~BoxHas(g, row, col, num)

(***************************************************************************)
(* getPossibleNumbers: the digits 1..9 that pass isValidMove, ascending.   *)
(***************************************************************************)
RECURSIVE PossibleFrom(_, _, _, _)
PossibleFrom(g, row, col, num) ==
    IF num > GRID_SIZE THEN <<>>
    ELSE IF isValidMove(g, row, col, num)
         THEN <<num>> \o PossibleFrom(g, row, col, num + 1)
         ELSE PossibleFrom(g, row, col, num + 1)

getPossibleNumbers(g, row, col) == PossibleFrom(g, row, col, 1)

(***************************************************************************)
(* findEmptyCell (lines 95-104): the first empty cell in row-major order,  *)
(* or null.  The two nested loops are two recursions.                      *)
(***************************************************************************)
NoCell == [row |-> -1, col |-> -1]

RECURSIVE FindEmptyInRow(_, _, _)
FindEmptyInRow(g, row, col) ==
    IF col >= GRID_SIZE THEN NoCell
    ELSE IF g[row][col] = EMPTY_CELL THEN Pos(row, col)
         ELSE FindEmptyInRow(g, row, col + 1)

RECURSIVE FindEmptyFrom(_, _)
FindEmptyFrom(g, row) ==
    IF row >= GRID_SIZE THEN NoCell
    ELSE LET found == FindEmptyInRow(g, row, 0) IN
         IF found # NoCell THEN found ELSE FindEmptyFrom(g, row + 1)

findEmptyCell(g) == FindEmptyFrom(g, 0)

(***************************************************************************)
(* The clear-then-retest step of isValidGrid and getConflicts (lines       *)
(* 163-168 and 189-194) on the cell (row, col): clear the cell, test its   *)
(* value with isValidMove, restore it.  The result carries the grid as     *)
(* the step leaves it.                                                     *)
(***************************************************************************)
\* Mutant: the cell is restored only when the test has passed.
Retest_RestoreWhenValid(g, row, col) ==
    LET num == g[row][col]
        cleared == SetCell(g, row, col, EMPTY_CELL)
        isValid == isValidMove(cleared, row, col, num)
    IN  [grid |-> IF isValid THEN SetCell(cleared, row, col, num) ELSE cleared,
         isValid |-> isValid]

Retest(g, row, col) ==
    LET num == g[row][col]
        cleared == SetCell(g, row, col, EMPTY_CELL)
        isValid == isValidMove(cleared, row, col, num)
        restored == SetCell(cleared, row, col, num)
    IN  [grid |-> restored, isValid |-> isValid]

(***************************************************************************)
(* isValidGrid (lines 160-177): retest every filled cell in row-major      *)
(* order; return false at the first cell that fails.                       *)
(***************************************************************************)
RECURSIVE ValidInRow(_, _, _)
ValidInRow(g, row, col) ==
    IF col >= GRID_SIZE THEN [grid |-> g, value |-> TRUE]
    ELSE IF g[row][col] # EMPTY_CELL
         THEN LET t == Retest(g, row, col) IN
              IF ~t.isValid THEN [grid |-> t.grid, value |-> FALSE]
              ELSE ValidInRow(t.grid, row, col + 1)
         ELSE ValidInRow(g, row, col + 1)

RECURSIVE ValidGridFrom(_, _)
ValidGridFrom(g, row) ==
    IF row >= GRID_SIZE THEN [grid |-> g, value |-> TRUE]
    ELSE LET r == ValidInRow(g, row, 0) IN
         IF ~r.value THEN r ELSE ValidGridFrom(r.grid, row + 1)

isValidGrid(g) == ValidGridFrom(g, 0)

(***************************************************************************)
(* isComplete (lines 141-153): false when a cell is empty, else            *)
(* isValidGrid.                                                            *)
(***************************************************************************)
\* Mutant: the scan for empty cells (lines 143-149) left out.
isComplete_NoEmptyScan(g) == isValidGrid(g)

isComplete(g) ==
    IF \E row \in 0 .. (GRID_SIZE - 1) : \E col \in 0 .. (GRID_SIZE - 1) :
           g[row][col] = EMPTY_CELL
    THEN [grid |-> g, value |-> FALSE]
    ELSE isValidGrid(g)

(***************************************************************************)
(* getConflicts (lines 184-204): retest every filled cell; the cells that  *)
(* fail are pushed in row-major order.                                     *)
(***************************************************************************)
\* Mutant: a cell is pushed only while no conflict has been found yet.
RECURSIVE ConflictsInRow_FirstOnly(_, _, _, _)
ConflictsInRow_FirstOnly(g, row, col, conflicts) ==
    IF col >= GRID_SIZE THEN [grid |-> g, value |-> conflicts]
    ELSE IF g[row][col] # EMPTY_CELL
         THEN LET t == Retest(g, row, col) IN
              ConflictsInRow_FirstOnly(t.grid, row, col + 1,
                  IF ~t.isValid /\ conflicts = <<>>
                  THEN Append(conflicts, Pos(row, col))
                  ELSE conflicts)
         ELSE ConflictsInRow_FirstOnly(g, row, col + 1, conflicts)

RECURSIVE ConflictsInRow(_, _, _, _)
ConflictsInRow(g, row, col, conflicts) ==
    IF col >= GRID_SIZE THEN [grid |-> g, value |-> conflicts]
    ELSE IF g[row][col] # EMPTY_CELL
         THEN LET t == Retest(g, row, col) IN
              ConflictsInRow(t.grid, row, col + 1,
                  IF ~t.isValid THEN Append(conflicts, Pos(row, col))
                  ELSE conflicts)
         ELSE ConflictsInRow(g, row, col + 1, conflicts)

RECURSIVE ConflictsFrom(_, _, _)
ConflictsFrom(g, row, conflicts) ==
    IF row >= GRID_SIZE THEN [grid |-> g, value |-> conflicts]
    ELSE LET r == ConflictsInRow(g, row, 0, conflicts) IN
         ConflictsFrom(r.grid, row + 1, r.value)

getConflicts(g) == ConflictsFrom(g, 0, <<>>)

(***************************************************************************)
(* The random source.  Math.random is a seeded generator whose state the   *)
(* program never sees.  rng >= 0 is the state of a small linear            *)
(* congruential generator, so a run is a function of its seed; rng < 0 is  *)
(* an unconstrained source, every draw of which can be any value.          *)
(* RandomIndex(r, i) is the set of values floor(Math.random() * (i + 1))   *)
(* can take, RandomNext(r) the state after the draw.                       *)
(***************************************************************************)
RandomNext(r) == IF r < 0 THEN r ELSE (r * 25173 + 13849) % 65536

RandomIndex(r, i) ==
    IF r < 0 THEN 0 .. i
    ELSE {(RandomNext(r) * (i + 1)) \div 65536}

(***************************************************************************)
(* shuffleArray (Fisher-Yates, lines 407-412).  The array a[0..n-1] of the *)
(* code is the sequence array[1..n]; the result is the set of outcomes,    *)
(* each the shuffled array with the state of the random source after it.   *)
(***************************************************************************)
Swap(array, i, j) ==
    [array EXCEPT ![i + 1] = array[j + 1], ![j + 1] = array[i + 1]]

RECURSIVE ShuffleFrom(_, _, _)
ShuffleFrom(array, i, r) ==
    IF i <= 0 THEN {[array |-> array, rng |-> r]}
    ELSE UNION {ShuffleFrom(Swap(array, i, j), i - 1, RandomNext(r)) :
                    j \in RandomIndex(r, i)}

shuffleArray(array, r) == ShuffleFrom(array, Len(array) - 1, r)

(***************************************************************************)
(* solveSudoku (lines 111-134), one step of the code per action.  A frame  *)
(* of the recursion holds the cell of the call, its shuffled candidates    *)
(* and the index of the candidate the for-loop takes next.                 *)
(***************************************************************************)
Top == stack[Len(stack)]

Pop == SubSeq(stack, 1, Len(stack) - 1)

\* Lines 112-121: the entry of a call, to the shuffle.
SolveCall ==
    /\ pc = "solve_call"
    /\ LET emptyCell == findEmptyCell(grid) IN
       IF emptyCell = NoCell
       THEN /\ pc' = "solve_ret"
            /\ retval' = TRUE
            /\ UNCHANGED <<stack, rng>>
       ELSE \E s \in shuffleArray(
                        getPossibleNumbers(grid, emptyCell.row, emptyCell.col), rng) :
                /\ stack' = Append(stack, [row |-> emptyCell.row,
                                           col |-> emptyCell.col,
                                           possibilities |-> s.array,
                                           next |-> 1])
                /\ rng' = s.rng
                /\ pc' = "solve_loop"
                /\ UNCHANGED retval
    /\ UNCHANGED <<op, grid, entry, args, gen, uniq, heap, refs,
                 game, clock, env, storage>>

\* Mutant: the loop gives up after its first candidate.
SolveLoop_FirstOnly ==
    /\ pc = "solve_loop"
    /\ IF Top.next <= Len(Top.possibilities) /\ Top.next = 1
       THEN /\ grid' = SetCell(grid, Top.row, Top.col, Top.possibilities[Top.next])
            /\ stack' = [stack EXCEPT ![Len(stack)].next = @ + 1]
            /\ pc' = "solve_call"
            /\ UNCHANGED retval
       ELSE /\ stack' = Pop
            /\ retval' = FALSE
            /\ pc' = "solve_ret"
            /\ UNCHANGED grid
    /\ UNCHANGED <<op, entry, rng, args, gen, uniq, heap, refs,
                 game, clock, env, storage>>

\* Lines 123-126 and 133: the head of the for-loop: assign the next
\* candidate and recurse, or return false when the candidates are exhausted.
SolveLoop ==
    /\ pc = "solve_loop"
    /\ IF Top.next <= Len(Top.possibilities)
       THEN /\ grid' = SetCell(grid, Top.row, Top.col, Top.possibilities[Top.next])
            /\ stack' = [stack EXCEPT ![Len(stack)].next = @ + 1]
            /\ pc' = "solve_call"
            /\ UNCHANGED retval
       ELSE /\ stack' = Pop
            /\ retval' = FALSE
            /\ pc' = "solve_ret"
            /\ UNCHANGED grid
    /\ UNCHANGED <<op, entry, rng, args, gen, uniq, heap, refs,
                 game, clock, env, storage>>

\* Mutant: the cell is not cleared when the recursive call fails (line 130).
SolveReturn_NoClear ==
    /\ pc = "solve_ret"
    /\ stack # <<>>
    /\ IF retval
       THEN /\ stack' = Pop
            /\ UNCHANGED pc
       ELSE /\ pc' = "solve_loop"
            /\ UNCHANGED stack
    /\ UNCHANGED <<op, grid, entry, retval, rng, args, gen, uniq, heap, refs,
                 game, clock, env, storage>>

\* Lines 126-130: the recursive call has returned into the frame on top:
\* return true, or clear the cell and go on with the loop.
SolveReturn ==
    /\ pc = "solve_ret"
    /\ stack # <<>>
    /\ IF retval
       THEN /\ stack' = Pop
            /\ UNCHANGED <<pc, grid>>
       ELSE /\ grid' = SetCell(grid, Top.row, Top.col, EMPTY_CELL)
            /\ pc' = "solve_loop"
            /\ UNCHANGED stack
    /\ UNCHANGED <<op, entry, retval, rng, args, gen, uniq, heap, refs,
                 game, clock, env, storage>>

\* The outermost call of solveSudoku returns to its caller.
SolveSudokuDone ==
    /\ op = "solveSudoku"
    /\ pc = "solve_ret"
    /\ stack = <<>>
    /\ pc' = "done"
    /\ UNCHANGED <<op, grid, entry, stack, retval, rng, args, gen, uniq, heap, refs,
                 game, clock, env, storage>>

(***************************************************************************)
(* findAllSolutions (lines 324-343), one step of the code per action, on   *)
(* the working copy uniq.work with the array uniq.solutions.  A frame      *)
(* holds the cell of the call and the digit num of its for-loop.           *)
(***************************************************************************)
MaxSolutions == 2

\* Lines 334-335: the first digit from num on that passes isValidMove
\* (GRID_SIZE + 1 when there is none).
RECURSIVE NextValidNum(_, _, _, _)
NextValidNum(g, row, col, num) ==
    IF num > GRID_SIZE THEN num
    ELSE IF isValidMove(g, row, col, num) THEN num
         ELSE NextValidNum(g, row, col, num + 1)

\* Lines 313-314: hasUniqueSolution copies its argument and starts the search.
UniqueCall ==
    /\ pc = "hu_call"
    /\ uniq' = [work |-> copyGrid(grid), solutions |-> <<>>]
    /\ stack' = <<>>
    /\ pc' = "fa_call"
    /\ UNCHANGED <<op, grid, entry, retval, rng, args, gen, heap, refs,
                 game, clock, env, storage>>

\* Lines 325-333: the entry of a call.
FindAllCall ==
    /\ pc = "fa_call"
    /\ IF Len(uniq.solutions) >= MaxSolutions
       THEN /\ pc' = "fa_ret"
            /\ UNCHANGED <<stack, uniq>>
       ELSE LET emptyCell == findEmptyCell(uniq.work) IN
            IF emptyCell = NoCell
            THEN /\ uniq' = [uniq EXCEPT
                                !.solutions = Append(@, copyGrid(uniq.work))]
                 /\ pc' = "fa_ret"
                 /\ UNCHANGED stack
            ELSE /\ stack' = Append(stack, [row |-> emptyCell.row,
                                            col |-> emptyCell.col,
                                            num |-> 1])
                 /\ pc' = "fa_loop"
                 /\ UNCHANGED uniq
    /\ UNCHANGED <<op, grid, entry, retval, rng, args, gen, heap, refs,
                 game, clock, env, storage>>

\* Mutant: the loop returns after the first digit it has tried.
FindAllLoop_FirstOnly ==
    /\ pc = "fa_loop"
    /\ LET num == IF Top.num > 1 THEN GRID_SIZE + 1
                  ELSE NextValidNum(uniq.work, Top.row, Top.col, Top.num) IN
       IF num <= GRID_SIZE
       THEN /\ uniq' = [uniq EXCEPT !.work = SetCell(@, Top.row, Top.col, num)]
            /\ stack' = [stack EXCEPT ![Len(stack)].num = num]
            /\ pc' = "fa_call"
       ELSE /\ stack' = Pop
            /\ pc' = "fa_ret"
            /\ UNCHANGED uniq
    /\ UNCHANGED <<op, grid, entry, retval, rng, args, gen, heap, refs,
                 game, clock, env, storage>>

\* Lines 334-337: the for-loop runs to the next digit that is a valid move,
\* assigns it and recurses; past 9 the call returns.
FindAllLoop ==
    /\ pc = "fa_loop"
    /\ LET num == NextValidNum(uniq.work, Top.row, Top.col, Top.num) IN
       IF num <= GRID_SIZE
       THEN /\ uniq' = [uniq EXCEPT !.work = SetCell(@, Top.row, Top.col, num)]
            /\ stack' = [stack EXCEPT ![Len(stack)].num = num]
            /\ pc' = "fa_call"
       ELSE /\ stack' = Pop
            /\ pc' = "fa_ret"
            /\ UNCHANGED uniq
    /\ UNCHANGED <<op, grid, entry, retval, rng, args, gen, heap, refs,
                 game, clock, env, storage>>
\* Mutant: the test of the cap (line 340) comes before the clear (line 338).
FindAllReturn_CapFirst ==
    /\ pc = "fa_ret"
    /\ stack # <<>>
    /\ IF Len(uniq.solutions) >= MaxSolutions
       THEN /\ stack' = Pop
            /\ UNCHANGED <<pc, uniq>>
       ELSE /\ uniq' = [uniq EXCEPT !.work = SetCell(@, Top.row, Top.col, EMPTY_CELL)]
            /\ stack' = [stack EXCEPT ![Len(stack)].num = @ + 1]
            /\ pc' = "fa_loop"
    /\ UNCHANGED <<op, grid, entry, retval, rng, args, gen, heap, refs,
                 game, clock, env, storage>>

\* Lines 338-340: the recursive call has returned into the frame on top:
\* clear the cell, then return if the cap is reached, else go on with num + 1.
FindAllReturn ==
    /\ pc = "fa_ret"
    /\ stack # <<>>
    /\ uniq' = [uniq EXCEPT !.work = SetCell(@, Top.row, Top.col, EMPTY_CELL)]
    /\ IF Len(uniq.solutions) >= MaxSolutions
       THEN /\ stack' = Pop
            /\ UNCHANGED pc
       ELSE /\ stack' = [stack EXCEPT ![Len(stack)].num = @ + 1]
            /\ pc' = "fa_loop"
    /\ UNCHANGED <<op, grid, entry, retval, rng, args, gen, heap, refs,
                 game, clock, env, storage>>
\* Mutant: hasUniqueSolution returns solutions.length >= 1.
UniqueDone_AtLeastOne ==
    /\ pc = "fa_ret"
    /\ stack = <<>>
    /\ retval' = (Len(uniq.solutions) >= 1)
    /\ pc' = IF op = "hasUniqueSolution" THEN "done" ELSE "gen_checked"
    /\ UNCHANGED <<op, grid, entry, stack, rng, args, gen, uniq, heap, refs,
                 game, clock, env, storage>>

\* Line 315: the search has returned to hasUniqueSolution, which returns
\* solutions.length === 1 to its caller.
UniqueDone ==
    /\ pc = "fa_ret"
    /\ stack = <<>>
    /\ retval' = (Len(uniq.solutions) = 1)
    /\ pc' = IF op = "hasUniqueSolution" THEN "done" ELSE "gen_checked"
    /\ UNCHANGED <<op, grid, entry, stack, rng, args, gen, uniq, heap, refs,
                 game, clock, env, storage>>

(***************************************************************************)
(* countFilledCells (lines 350-360).                                       *)
(***************************************************************************)
countFilledCells(g) ==
    Cardinality({p \in Positions : g[p.row][p.col] # EMPTY_CELL})

(***************************************************************************)
(* fillBox and fillDiagonalBoxes (lines 226-248).  The result carries the  *)
(* grid and the state of the random source.                                *)
(***************************************************************************)
fillBox(g, startRow, startCol, r) ==
    {[grid |-> [row \in Idx |-> [col \in Idx |->
                   IF /\ row \in startRow .. (startRow + BOX_SIZE - 1)
                      /\ col \in startCol .. (startCol + BOX_SIZE - 1)
                   THEN s.array[(row - startRow) * BOX_SIZE + (col - startCol) + 1]
                   ELSE g[row][col]]],
      rng |-> s.rng] : s \in shuffleArray(<<1, 2, 3, 4, 5, 6, 7, 8, 9>>, r)}

\* Mutant: the three boxes of the top band are filled instead of the diagonal.
RECURSIVE FillBoxesFrom_TopBand(_, _, _)
FillBoxesFrom_TopBand(g, boxRow, r) ==
    IF boxRow >= GRID_SIZE THEN {[grid |-> g, rng |-> r]}
    ELSE UNION {FillBoxesFrom_TopBand(b.grid, boxRow + BOX_SIZE, b.rng) :
                    b \in fillBox(g, 0, boxRow, r)}

RECURSIVE FillBoxesFrom(_, _, _)
FillBoxesFrom(g, boxRow, r) ==
    IF boxRow >= GRID_SIZE THEN {[grid |-> g, rng |-> r]}
    ELSE UNION {FillBoxesFrom(b.grid, boxRow + BOX_SIZE, b.rng) :
                    b \in fillBox(g, boxRow, boxRow, r)}

fillDiagonalBoxes(g, r) == FillBoxesFrom(g, 0, r)

(***************************************************************************)
(* generatePuzzle (lines 255-305) with generateCompleteSudoku (210-220).   *)
(* grid is the grid being built: the solution while it is solved, then     *)
(* the puzzle, its copy; gen.solution is the solution.                     *)
(***************************************************************************)
cellsToRemove == (GRID_SIZE * GRID_SIZE) - DIFFICULTY_CONFIG[args.difficulty].filledCells

\* Mutant: the cap on the attempts is half of cellsToRemove.
maxAttempts_Half == cellsToRemove \div 2

maxAttempts == cellsToRemove * 2

\* Lines 211-217: an empty grid, the diagonal boxes, then solveSudoku.
GenerateComplete ==
    /\ op = "generatePuzzle"
    /\ pc = "gen_start"
    /\ \E f \in fillDiagonalBoxes(createEmptyGrid, rng) :
          /\ grid' = f.grid
          /\ rng' = f.rng
    /\ stack' = <<>>
    /\ pc' = "solve_call"
    /\ UNCHANGED <<op, entry, retval, args, gen, uniq, heap, refs,
                 game, clock, env, storage>>

\* Lines 219 and 256-268: generateCompleteSudoku returns the grid, whatever
\* solveSudoku returned; generatePuzzle copies it and lists the positions.
GenerateCopy ==
    /\ op = "generatePuzzle"
    /\ pc = "solve_ret"
    /\ stack = <<>>
    /\ gen' = [gen EXCEPT !.solution = grid,
                          !.positions = [k \in 1 .. (GRID_SIZE * GRID_SIZE) |->
                              Pos((k - 1) \div GRID_SIZE, (k - 1) % GRID_SIZE)],
                          !.i = GRID_SIZE * GRID_SIZE - 1]
    /\ grid' = copyGrid(grid)
    /\ pc' = "gen_shuffle"
    /\ UNCHANGED <<op, entry, stack, retval, rng, args, uniq, heap, refs,
                 game, clock, env, storage>>

\* Line 271: shuffleArray(positions), one iteration of its loop per step;
\* after the last one, lines 273-275.
GenerateShuffle ==
    /\ pc = "gen_shuffle"
    /\ IF gen.i > 0
       THEN \E j \in RandomIndex(rng, gen.i) :
              /\ gen' = [gen EXCEPT !.positions = Swap(@, gen.i, j), !.i = @ - 1]
              /\ rng' = RandomNext(rng)
              /\ UNCHANGED pc
       ELSE /\ gen' = [gen EXCEPT !.removed = 0, !.attempts = 0, !.next = 1]
            /\ pc' = "gen_loop"
            /\ UNCHANGED rng
    /\ UNCHANGED <<op, grid, entry, stack, retval, args, uniq, heap, refs,
                 game, clock, env, storage>>

\* Mutant: the loop never breaks on the counters (line 278 left out).
GenerateLoop_NoBreak ==
    /\ pc = "gen_loop"
    /\ IF gen.next > Len(gen.positions)
       THEN /\ pc' = "gen_return"
            /\ UNCHANGED <<grid, gen>>
       ELSE LET pos == gen.positions[gen.next] IN
            /\ grid' = SetCell(grid, pos.row, pos.col, EMPTY_CELL)
            /\ IF args.difficulty = "hard" /\ gen.removed * 10 > cellsToRemove * 7
               THEN /\ gen' = [gen EXCEPT !.backup = grid[pos.row][pos.col],
                                          !.attempts = @ + 1]
                    /\ pc' = "hu_call"
               ELSE /\ gen' = [gen EXCEPT !.backup = grid[pos.row][pos.col],
                                          !.attempts = @ + 1,
                                          !.removed = @ + 1,
                                          !.next = @ + 1]
                    /\ UNCHANGED pc
    /\ UNCHANGED <<op, entry, stack, retval, rng, args, uniq, heap, refs,
                 game, clock, env, storage>>

\* Lines 277-296: one iteration of the removal loop, up to the call of
\* hasUniqueSolution when there is one.  removed > cellsToRemove * 0.7 is
\* compared in tenths.
GenerateLoop ==
    /\ pc = "gen_loop"
    /\ IF \/ gen.next > Len(gen.positions)
          \/ gen.removed >= cellsToRemove
          \/ gen.attempts >= maxAttempts
       THEN /\ pc' = "gen_return"
            /\ UNCHANGED <<grid, gen>>
       ELSE LET pos == gen.positions[gen.next] IN
            /\ grid' = SetCell(grid, pos.row, pos.col, EMPTY_CELL)
            /\ IF args.difficulty = "hard" /\ gen.removed * 10 > cellsToRemove * 7
               THEN /\ gen' = [gen EXCEPT !.backup = grid[pos.row][pos.col],
                                          !.attempts = @ + 1]
                    /\ pc' = "hu_call"
               ELSE /\ gen' = [gen EXCEPT !.backup = grid[pos.row][pos.col],
                                          !.attempts = @ + 1,
                                          !.removed = @ + 1,
                                          !.next = @ + 1]
                    /\ UNCHANGED pc
    /\ UNCHANGED <<op, entry, stack, retval, rng, args, uniq, heap, refs,
                 game, clock, env, storage>>

\* Mutant: the restore of line 291 writes puzzle[col][row].
GenerateChecked_Transposed ==
    /\ pc = "gen_checked"
    /\ LET pos == gen.positions[gen.next] IN
       IF retval
       THEN /\ gen' = [gen EXCEPT !.removed = @ + 1, !.next = @ + 1]
            /\ UNCHANGED grid
       ELSE /\ grid' = SetCell(grid, pos.col, pos.row, gen.backup)
            /\ gen' = [gen EXCEPT !.next = @ + 1]
    /\ pc' = "gen_loop"
    /\ UNCHANGED <<op, entry, stack, retval, rng, args, uniq, heap, refs,
                 game, clock, env, storage>>
\* Mutant: after a rejected removal the loop takes the same position again.
GenerateChecked_Retry ==
    /\ pc = "gen_checked"
    /\ LET pos == gen.positions[gen.next] IN
       IF retval
       THEN /\ gen' = [gen EXCEPT !.removed = @ + 1, !.next = @ + 1]
            /\ UNCHANGED grid
       ELSE /\ grid' = SetCell(grid, pos.row, pos.col, gen.backup)
            /\ UNCHANGED gen
    /\ pc' = "gen_loop"
    /\ UNCHANGED <<op, entry, stack, retval, rng, args, uniq, heap, refs,
                 game, clock, env, storage>>

\* Mutant: the answer of hasUniqueSolution is not looked at; the removal is kept.
GenerateChecked_KeepAll ==
    /\ pc = "gen_checked"
    /\ gen' = [gen EXCEPT !.removed = @ + 1, !.next = @ + 1]
    /\ pc' = "gen_loop"
    /\ UNCHANGED <<op, grid, entry, stack, retval, rng, args, uniq, heap, refs,
                 game, clock, env, storage>>

\* Lines 288-292: hasUniqueSolution has returned: count the removal, or
\* restore the cell.
GenerateChecked ==
    /\ pc = "gen_checked"
    /\ LET pos == gen.positions[gen.next] IN
       IF retval
       THEN /\ gen' = [gen EXCEPT !.removed = @ + 1, !.next = @ + 1]
            /\ UNCHANGED grid
       ELSE /\ grid' = SetCell(grid, pos.row, pos.col, gen.backup)
            /\ gen' = [gen EXCEPT !.next = @ + 1]
    /\ pc' = "gen_loop"
    /\ UNCHANGED <<op, entry, stack, retval, rng, args, uniq, heap, refs,
                 game, clock, env, storage>>

\* Lines 299-304.
GenerateReturn ==
    /\ pc = "gen_return"
    /\ gen' = [gen EXCEPT !.returned = [puzzle |-> copyGrid(grid),
                                        solution |-> copyGrid(gen.solution),
                                        difficulty |-> args.difficulty,
                                        filledCells |-> countFilledCells(grid)]]
    /\ pc' = "done"
    /\ UNCHANGED <<op, grid, entry, stack, retval, rng, args, uniq, heap, refs,
                 game, clock, env, storage>>

(***************************************************************************)
(* getHint (lines 368-401).  The result is the set of hints the call can   *)
(* return, one for each value Math.random can give; null is NoHint.        *)
(***************************************************************************)
NoHint == [row |-> -1, col |-> -1, number |-> -1]

\* Mutant: the scan of lines 372-378 collects every cell.
RECURSIVE CollectEmptyInRow_All(_, _, _)
CollectEmptyInRow_All(g, row, col) ==
    IF col >= GRID_SIZE THEN <<>>
    ELSE <<Pos(row, col)>> \o CollectEmptyInRow_All(g, row, col + 1)

\* Lines 372-378: the empty cells in row-major order.
RECURSIVE CollectEmptyInRow(_, _, _)
CollectEmptyInRow(g, row, col) ==
    IF col >= GRID_SIZE THEN <<>>
    ELSE IF g[row][col] = EMPTY_CELL
         THEN <<Pos(row, col)>> \o CollectEmptyInRow(g, row, col + 1)
         ELSE CollectEmptyInRow(g, row, col + 1)

RECURSIVE CollectEmptyFrom(_, _)
CollectEmptyFrom(g, row) ==
    IF row >= GRID_SIZE THEN <<>>
    ELSE CollectEmptyInRow(g, row, 0) \o CollectEmptyFrom(g, row + 1)

\* Lines 383-392: the index of the first cell of emptyCells with exactly
\* one possible number (0 when the loop ends without one).
FirstSingle(puzzle, emptyCells) ==
    LET singles == {k \in 1 .. Len(emptyCells) :
            Len(getPossibleNumbers(puzzle, emptyCells[k].row, emptyCells[k].col)) = 1}
    IN  IF singles = {} THEN 0
        ELSE CHOOSE k \in singles : \A j \in singles : k <= j

getHint(puzzle, solution, r) ==
    LET emptyCells == CollectEmptyFrom(puzzle, 0)
        k == FirstSingle(puzzle, emptyCells)
    IN  IF Len(emptyCells) = 0 THEN {NoHint}
        ELSE IF k > 0
             THEN {[row |-> emptyCells[k].row, col |-> emptyCells[k].col,
                    number |-> getPossibleNumbers(puzzle, emptyCells[k].row,
                                                  emptyCells[k].col)[1]]}
             ELSE {[row |-> emptyCells[j + 1].row, col |-> emptyCells[j + 1].col,
                    number |-> solution[emptyCells[j + 1].row][emptyCells[j + 1].col]] :
                       j \in RandomIndex(r, Len(emptyCells) - 1)}

(***************************************************************************)
(* getRelatedCells (lines 420-453).  related is a Set of strings: it is    *)
(* the sequence of its elements in insertion order, and an element is      *)
(* added only when it is not there.  A string is the sequence of its       *)
(* characters: the key `${r},${c}` is built from the decimal digits of r   *)
(* and c, and read back by split(',') and Number.                          *)
(***************************************************************************)
DigitChars == <<"0", "1", "2", "3", "4", "5", "6", "7", "8", "9">>

\* The decimal string of n >= 0.
RECURSIVE NumberToString(_)
NumberToString(n) ==
    IF n < 10 THEN <<DigitChars[n + 1]>>
    ELSE NumberToString(n \div 10) \o <<DigitChars[(n % 10) + 1]>>

CellKey(r, c) == NumberToString(r) \o <<",">> \o NumberToString(c)

\* split(','): the pieces of str between the commas.
RECURSIVE SplitComma(_, _)
SplitComma(str, piece) ==
    IF str = <<>> THEN <<piece>>
    ELSE IF Head(str) = "," THEN <<piece>> \o SplitComma(Tail(str), <<>>)
         ELSE SplitComma(Tail(str), Append(piece, Head(str)))

\* Number(str) for a string of decimal digits.
RECURSIVE StringToNumber(_, _)
StringToNumber(str, value) ==
    IF str = <<>> THEN value
    ELSE StringToNumber(Tail(str),
             10 * value + ((CHOOSE d \in 1 .. 10 : DigitChars[d] = Head(str)) - 1))

\* related.add(key).
SetAdd(related, key) ==
    IF \E i \in 1 .. Len(related) : related[i] = key THEN related
    ELSE Append(related, key)

\* Lines 424-428.
RECURSIVE RelatedRow(_, _, _, _)
RelatedRow(related, row, col, c) ==
    IF c >= GRID_SIZE THEN related
    ELSE RelatedRow(IF c # col THEN SetAdd(related, CellKey(row, c)) ELSE related,
                    row, col, c + 1)

\* Mutant: the column loop without the test of line 432.
RECURSIVE RelatedColumn_All(_, _, _, _)
RelatedColumn_All(related, row, col, r) ==
    IF r >= GRID_SIZE THEN related
    ELSE RelatedColumn_All(SetAdd(related, CellKey(r, col)), row, col, r + 1)

\* Lines 431-435.
RECURSIVE RelatedColumn(_, _, _, _)
RelatedColumn(related, row, col, r) ==
    IF r >= GRID_SIZE THEN related
    ELSE RelatedColumn(IF r # row THEN SetAdd(related, CellKey(r, col)) ELSE related,
                       row, col, r + 1)

\* Lines 438-447: k runs over the nine cells of the box, row by row.
RECURSIVE RelatedBox(_, _, _, _)
RelatedBox(related, row, col, k) ==
    IF k >= BOX_SIZE * BOX_SIZE THEN related
    ELSE LET r == BoxStart(row) + (k \div BOX_SIZE)
             c == BoxStart(col) + (k % BOX_SIZE)
         IN  RelatedBox(IF r # row \/ c # col THEN SetAdd(related, CellKey(r, c))
                        ELSE related,
                        row, col, k + 1)

\* Lines 449-452.
KeyToCell(pos) ==
    LET pieces == SplitComma(pos, <<>>) IN
    [row |-> StringToNumber(pieces[1], 0), col |-> StringToNumber(pieces[2], 0)]

getRelatedCells(row, col) ==
    LET related == RelatedBox(RelatedColumn(RelatedRow(<<>>, row, col, 0),
                                            row, col, 0),
                              row, col, 0)
    IN  [i \in 1 .. Len(related) |-> KeyToCell(related[i])]

(***************************************************************************)
(* Grids on the heap.  A grid of the program is an array of nine row       *)
(* arrays: here the sequence of the addresses of its rows, heap[a] being   *)
(* the row at address a.  copyGrid (line 32, grid.map(row => [...row]))    *)
(* allocates nine new rows; grid[row][col] = v writes into the row the     *)
(* grid refers to, whoever else refers to it.                              *)
(***************************************************************************)
RefNames == {"solution", "puzzle", "result.puzzle", "result.solution",
             "currentGrid", "saved"}

NoRefs == [n \in RefNames |-> <<>>]

\* The contents of the grid g.
Deref(h, g) == [row \in Idx |-> h[g[row + 1]]]

\* Mutant: the copy is [...grid], a new outer array over the same rows.
copyGridOnHeap_Shallow(h, g) == [heap |-> h, grid |-> g]

copyGridOnHeap(h, g) ==
    [heap |-> h \o [i \in 1 .. GRID_SIZE |-> h[g[i]]],
     grid |-> [i \in 1 .. GRID_SIZE |-> Len(h) + i]]

\* grid[row][col] = v.
WriteOnHeap(h, g, row, col, v) == [h EXCEPT ![g[row + 1]][col] = v]

HeapCells == {Pos(0, 0), Pos(4, 4)}

HeapNumbers == {0, 9}

MaxSaves == 2

\* generatePuzzle line 257: puzzle = copyGrid(solution).
HeapCopySolution ==
    /\ pc = "heap_copy"
    /\ LET c == copyGridOnHeap(heap, refs["solution"]) IN
          /\ heap' = c.heap
          /\ refs' = [refs EXCEPT !["puzzle"] = c.grid]
    /\ pc' = "heap_loop"
    /\ UNCHANGED <<op, grid, entry, stack, retval, rng, args, gen, uniq,
                 game, clock, env, storage>>

\* Lines 282 and 291: a cell of the puzzle is cleared, or gets back the
\* value it had (that of the solution).
HeapRemove ==
    /\ pc = "heap_loop"
    /\ \E p \in HeapCells :
       \E v \in {EMPTY_CELL, heap[refs["solution"][p.row + 1]][p.col]} :
          /\ heap' = WriteOnHeap(heap, refs["puzzle"], p.row, p.col, v)
          /\ args' = [args EXCEPT !.row = p.row, !.col = p.col, !.num = v,
                                  !.target = "puzzle"]
    /\ UNCHANGED <<op, pc, grid, entry, stack, retval, rng, gen, uniq, refs,
                 game, clock, env, storage>>

\* Lines 299-304: the result holds a copy of the puzzle and one of the solution.
HeapGenerateReturn ==
    /\ pc = "heap_loop"
    /\ LET c == copyGridOnHeap(heap, refs["puzzle"])
           d == copyGridOnHeap(c.heap, refs["solution"])
       IN  /\ heap' = d.heap
           /\ refs' = [refs EXCEPT !["result.puzzle"] = c.grid,
                                   !["result.solution"] = d.grid]
    /\ pc' = "heap_new"
    /\ UNCHANGED <<op, grid, entry, stack, retval, rng, args, gen, uniq,
                 game, clock, env, storage>>

\* GameController.newGame: currentGrid = copyGrid(puzzleData.puzzle).
HeapNewGame ==
    /\ pc = "heap_new"
    /\ LET c == copyGridOnHeap(heap, refs["result.puzzle"]) IN
          /\ heap' = c.heap
          /\ refs' = [refs EXCEPT !["currentGrid"] = c.grid]
    /\ pc' = "heap_play"
    /\ UNCHANGED <<op, grid, entry, stack, retval, rng, args, gen, uniq,
                 game, clock, env, storage>>

\* GameController.saveToHistory: a copy of currentGrid is stored.
HeapSaveToHistory ==
    /\ pc = "heap_play"
    /\ Len(heap) < GRID_SIZE * (5 + MaxSaves)
    /\ LET c == copyGridOnHeap(heap, refs["currentGrid"]) IN
          /\ heap' = c.heap
          /\ refs' = [refs EXCEPT !["saved"] = c.grid]
    /\ UNCHANGED <<op, pc, grid, entry, stack, retval, rng, args, gen, uniq,
                 game, clock, env, storage>>

\* GameController.inputNumber: currentGrid[row][col] = number.
HeapInput ==
    /\ pc = "heap_play"
    /\ \E p \in HeapCells : \E v \in HeapNumbers :
          /\ heap' = WriteOnHeap(heap, refs["currentGrid"], p.row, p.col, v)
          /\ args' = [args EXCEPT !.row = p.row, !.col = p.col, !.num = v,
                                  !.target = "currentGrid"]
    /\ UNCHANGED <<op, pc, grid, entry, stack, retval, rng, gen, uniq, refs,
                 game, clock, env, storage>>

(***************************************************************************)
(* Input grids.  PatternGrid is a complete valid grid; an input is         *)
(* PatternGrid with some cells of Pool cleared and, optionally, one cell   *)
(* overwritten with any digit.  The first six cells of Pool hold the       *)
(* digits 1 and 4 in a cycle that can be swapped, so clearing all six      *)
(* leaves two completions; overwriting (4,4) gives a grid whose filled     *)
(* cells conflict; overwriting (0,0) gives grids that are free of          *)
(* conflicts and have no completion.                                       *)
(***************************************************************************)
MaxEmpty == 6

PatternGrid ==
    [r \in Idx |-> [c \in Idx |->
        ((BOX_SIZE * (r % BOX_SIZE) + (r \div BOX_SIZE) + c) % GRID_SIZE) + 1]]

Pool == {Pos(0, 0), Pos(0, 3), Pos(1, 0), Pos(1, 6), Pos(2, 3), Pos(2, 6),
         Pos(0, 1), Pos(3, 0)}

OverwriteCells == {Pos(0, 0), Pos(4, 4)}

Blank(g, E) ==
    [r \in Idx |-> [c \in Idx |-> IF Pos(r, c) \in E THEN EMPTY_CELL ELSE g[r][c]]]

BlankedGrids(pool, maxEmpty) ==
    {Blank(PatternGrid, E) : E \in {F \in SUBSET pool : Cardinality(F) <= maxEmpty}}

GridsFrom(pool, maxEmpty) ==
    BlankedGrids(pool, maxEmpty) \cup
    {SetCell(g, p.row, p.col, v) :
        g \in BlankedGrids(pool, maxEmpty), p \in OverwriteCells, v \in Digits}

InputGrids == GridsFrom(Pool, MaxEmpty)

NoArgs == [row |-> 0, col |-> 0, num |-> 0, difficulty |-> "none",
           solution |-> createEmptyGrid, target |-> "none"]

\* The object generatePuzzle returns (lines 299-304), before it has returned.
NoPuzzleData == [puzzle |-> createEmptyGrid, solution |-> createEmptyGrid,
                 difficulty |-> "none", filledCells |-> 0]

NoGen == [solution |-> createEmptyGrid, positions |-> <<>>, i |-> 0, next |-> 1,
          removed |-> 0, attempts |-> 0, backup |-> 0, returned |-> NoPuzzleData]

NoUniq == [work |-> createEmptyGrid, solutions |-> <<>>]

(***************************************************************************)
(* GameController (src/src/components/sudoku-grid.js, lines 420-956) and   *)
(* StorageManager (src/unnamed/part_001).                                  *)
(*                                                                         *)
(* game is the gameState of the controller; its grids (puzzle, solution,   *)
(* currentGrid and the grid of each history entry) are objects on the      *)
(* heap, null being <<>>.  game.timer is this.timer: -1 for null, else the *)
(* time at which the interval was set or last fired.  game.id and          *)
(* game.name are the fields a loaded saved game brings with it (line 855,  *)
(* ...gameData).  storage is localStorage, which holds JSON: values, not   *)
(* objects.  localStorage is taken to be available and never full.         *)
(*                                                                         *)
(* A method of the controller is an operator from the world before the     *)
(* call, w = [heap, game, storage], to the world after it; now is the      *)
(* value of Date.now() during the call.                                    *)
(***************************************************************************)
maxHistory == 20

MAX_SAVED_GAMES == 5

NoId == [time |-> -1, rand |-> -1]

NoName == "undefined"

DefaultName == "game of today"

NoTime == -1

\* Constructor, lines 426-440 and 452: the state before any game.
NoGame ==
    [puzzle |-> <<>>, solution |-> <<>>, currentGrid |-> <<>>, isInitial |-> <<>>,
     selectedCell |-> NoCell, difficulty |-> "medium", status |-> "menu",
     startTime |-> 0, elapsedTime |-> 0, hintsUsed |-> 0, conflicts |-> <<>>,
     gameHistory |-> <<>>, isPaused |-> FALSE, timer |-> -1,
     id |-> NoId, name |-> NoName]

\* StorageManager constructor, lines 24-39 (defaultProgress), and an empty
\* localStorage.  currentGame is a sequence of at most one entry.
NoStorage ==
    [currentGame |-> <<>>,
     savedGames |-> <<>>,
     progress |-> [gamesPlayed |-> 0, gamesCompleted |-> 0, totalHintsUsed |-> 0,
                   totalTime |-> 0,
                   bestTimes |-> [d \in {"easy", "medium", "hard"} |-> NoTime],
                   achievements |-> <<>>, lastPlayed |-> NoTime]]

\* The player: the cells and the numbers entered, the cells cleared and
\* selected, the difficulties of the games started, the names given to saved
\* games, the time up to which the clock runs, and how many more times the
\* player changes the grid (moves), pauses or resumes, starts, saves, loads
\* and deletes a game, Unlimited being any number of times; played is the
\* time spent playing and not paused since the game began.
Unlimited == -1

NoEnv ==
    [cells |-> {}, numbers |-> {}, clears |-> {}, selects |-> {}, moves |-> 0,
     pauses |-> 0, difficulties |-> {}, newGames |-> 0, saves |-> 0, loads |-> 0,
     deletes |-> 0, names |-> {}, maxClock |-> 0, played |-> 0]

Spent(n) == IF n > 0 THEN n - 1 ELSE n

\* The grid objects the game refers to, in a fixed order.
GameRoots(g) ==
    IF g.puzzle = <<>> THEN <<>>
    ELSE <<g.puzzle, g.solution, g.currentGrid>> \o
         [i \in 1 .. Len(g.gameHistory) |-> g.gameHistory[i].grid]

\* Garbage collection: the rows no grid of the game refers to are dropped and
\* the others renumbered in the order of GameRoots; two grids that were the
\* same object still are.  Every grid object is nine rows allocated together
\* (copyGridOnHeap) or another name of such an object.
Collect(w) ==
    LET R == GameRoots(w.game)
        IsFirst(i) == \A j \in 1 .. (i - 1) : R[j] # R[i]
        firsts == SelectSeq([i \in 1 .. Len(R) |-> i], IsFirst)
        Slot(i) == CHOOSE s \in 1 .. Len(firsts) : R[firsts[s]] = R[i]
        Moved(i) == [k \in 1 .. GRID_SIZE |-> GRID_SIZE * (Slot(i) - 1) + k]
    IN  IF Len(R) = 0 THEN [w EXCEPT !.heap = <<>>]
        ELSE [w EXCEPT
                !.heap = [a \in 1 .. (GRID_SIZE * Len(firsts)) |->
                            w.heap[R[firsts[((a - 1) \div GRID_SIZE) + 1]]
                                    [((a - 1) % GRID_SIZE) + 1]]],
                !.game = [w.game EXCEPT
                            !.puzzle = Moved(1),
                            !.solution = Moved(2),
                            !.currentGrid = Moved(3),
                            !.gameHistory = [i \in 1 .. Len(w.game.gameHistory) |->
                                [w.game.gameHistory[i] EXCEPT !.grid = Moved(3 + i)]]]]

\* JSON.stringify(gameState): the values of the fields, the grids by value.
Snapshot(h, g) ==
    [puzzle |-> Deref(h, g.puzzle), solution |-> Deref(h, g.solution),
     currentGrid |-> Deref(h, g.currentGrid), isInitial |-> g.isInitial,
     selectedCell |-> g.selectedCell, difficulty |-> g.difficulty,
     status |-> g.status, startTime |-> g.startTime, elapsedTime |-> g.elapsedTime,
     hintsUsed |-> g.hintsUsed, conflicts |-> g.conflicts,
     gameHistory |-> [i \in 1 .. Len(g.gameHistory) |->
                        [g.gameHistory[i] EXCEPT !.grid = Deref(h, g.gameHistory[i].grid)]],
     isPaused |-> g.isPaused, id |-> g.id, name |-> g.name]

\* A new grid object with the contents v (an array literal, or JSON.parse).
NewGridOnHeap(h, v) ==
    [heap |-> h \o [i \in 1 .. GRID_SIZE |-> v[i - 1]],
     grid |-> [i \in 1 .. GRID_SIZE |-> Len(h) + i]]

\* The heap after the rows of the grid g have taken the contents v.
StoreGrid(h, g, v) ==
    [a \in 1 .. Len(h) |->
        IF \E i \in 1 .. GRID_SIZE : g[i] = a
        THEN v[(CHOOSE i \in 1 .. GRID_SIZE : g[i] = a) - 1]
        ELSE h[a]]

\* Lines 554-558.
createInitialFlags(puzzle) ==
    [r \in Idx |-> [c \in Idx |-> puzzle[r][c] # EMPTY_CELL]]

Playing(g) == g.status = "playing" /\ ~g.isPaused

\* Lines 772-777.
stopTimer(w) == [w EXCEPT !.game.timer = -1]

\* Lines 756-767: the interval is set; its callback is TimerTick.
startTimer(w, now) == [w EXCEPT !.game.timer = now]

\* StorageManager.saveCurrentGame, lines 104-112.
saveCurrentGame(st, state, now) ==
    [st EXCEPT !.currentGame = <<[state |-> state, timestamp |-> now]>>]

\* StorageManager.clearCurrentGame, lines 131-135.
clearCurrentGame(st) == [st EXCEPT !.currentGame = <<>>]

\* StorageManager.updateUserProgress, lines 224-237.
updateUserProgress(st, progress, now) ==
    [st EXCEPT !.progress = [progress EXCEPT !.lastPlayed = now]]

\* StorageManager.recordGameStart, lines 268-272.
recordGameStart(st, now) ==
    updateUserProgress(st, [st.progress EXCEPT !.gamesPlayed = @ + 1], now)

AchievementIds == <<"first_game", "speed_demon", "persistent", "master", "no_hints">>

\* StorageManager.checkAchievements, lines 278-330.
checkAchievements(progress, now) ==
    LET Unlocked(a) == \E i \in 1 .. Len(progress.achievements) :
                           progress.achievements[i].id = a
        Condition(a) ==
            CASE a = "first_game" -> progress.gamesCompleted >= 1
              [] a = "speed_demon" -> /\ progress.bestTimes["easy"] # NoTime
                                      /\ progress.bestTimes["easy"] # 0
                                      /\ progress.bestTimes["easy"] <= 300
              [] a = "persistent" -> progress.gamesCompleted >= 10
              [] a = "master" -> progress.bestTimes["hard"] # NoTime
              [] a = "no_hints" -> progress.gamesCompleted > 0
        New(a) == ~Unlocked(a) /\ Condition(a)
        new == SelectSeq(AchievementIds, New)
    IN  [progress EXCEPT !.achievements =
            @ \o [i \in 1 .. Len(new) |-> [id |-> new[i], unlockedAt |-> now]]]

\* StorageManager.recordGameCompletion, lines 245-263.
recordGameCompletion(st, difficulty, elapsedTime, hintsUsed, now) ==
    LET currentBest == st.progress.bestTimes[difficulty]
        counted == [st.progress EXCEPT
                      !.gamesCompleted = @ + 1,
                      !.totalHintsUsed = @ + hintsUsed,
                      !.totalTime = @ + elapsedTime,
                      !.bestTimes[difficulty] =
                          IF currentBest = NoTime \/ currentBest = 0
                             \/ elapsedTime < currentBest
                          THEN elapsedTime ELSE @]
    IN  updateUserProgress(st, checkAchievements(counted, now), now)

\* The values Math.random() can return, as multiples of 1/65536.
RandomValues(r) == IF r < 0 THEN 0 .. 65535 ELSE {RandomNext(r)}

\* StorageManager.generateGameId, lines 394-396: the time and a random
\* number, each written in base 36, one after the other.
generateGameId(now, random) == [time |-> now, rand |-> random]

\* savedGames.sort((a, b) => a.savedAt - b.savedAt), line 158: the sort is
\* stable.
RECURSIVE InsertBySavedAt(_, _)
InsertBySavedAt(sorted, e) ==
    IF sorted = <<>> THEN <<e>>
    ELSE IF sorted[Len(sorted)].savedAt <= e.savedAt THEN Append(sorted, e)
    ELSE Append(InsertBySavedAt(SubSeq(sorted, 1, Len(sorted) - 1), e),
                sorted[Len(sorted)])

RECURSIVE SortBySavedAt(_)
SortBySavedAt(games) ==
    IF games = <<>> THEN <<>>
    ELSE InsertBySavedAt(SortBySavedAt(SubSeq(games, 1, Len(games) - 1)),
                         games[Len(games)])

\* Lines 156-160: the oldest game is dropped.
Evict(games) == Tail(SortBySavedAt(games))

\* Lines 146-149: id: generateGameId() comes before ...gameState, so an id
\* the game state has replaces it; so does a name.
SavedGameId(state, fresh) == IF state.id # NoId THEN state.id ELSE fresh

\* StorageManager.saveGame, lines 143-164.
saveGame(st, state, name, now, random) ==
    LET gameData == [id |-> SavedGameId(state, generateGameId(now, random)),
                     name |-> IF state.name # NoName THEN state.name
                              ELSE IF name # "" THEN name ELSE DefaultName,
                     savedAt |-> now,
                     state |-> state]
        savedGames == IF Len(st.savedGames) >= MAX_SAVED_GAMES
                      THEN Evict(st.savedGames) ELSE st.savedGames
    IN  [st EXCEPT !.savedGames = Append(savedGames, gameData)]

\* StorageManager.loadSavedGame, lines 179-188: the first game with the id,
\* as a sequence of at most one game.  (A stored game is the state of a game
\* that was being played, which isValidGameState accepts.)
loadSavedGame(st, gameId) ==
    LET found == SelectSeq(st.savedGames, LAMBDA g : g.id = gameId)
    IN  IF found = <<>> THEN <<>> ELSE <<found[1]>>

\* StorageManager.deleteSavedGame, lines 195-200.
deleteSavedGame(st, gameId) ==
    [st EXCEPT !.savedGames = SelectSeq(@, LAMBDA g : g.id # gameId)]

\* Mutant: the current grid itself is stored, not a copy of it.
saveToHistory_NoCopy(w, now) ==
    LET pushed == Append(w.game.gameHistory,
                         [grid |-> w.game.currentGrid,
                          hintsUsed |-> w.game.hintsUsed, timestamp |-> now])
    IN  [w EXCEPT !.game.gameHistory =
                      IF Len(pushed) > maxHistory THEN Tail(pushed) ELSE pushed]

\* Mutant: the history is not trimmed.
saveToHistory_NoLimit(w, now) ==
    LET c == copyGridOnHeap(w.heap, w.game.currentGrid)
    IN  [w EXCEPT !.heap = c.heap,
                  !.game.gameHistory =
                      Append(@, [grid |-> c.grid, hintsUsed |-> w.game.hintsUsed,
                                 timestamp |-> now])]

\* Lines 710-723.
saveToHistory(w, now) ==
    LET c == copyGridOnHeap(w.heap, w.game.currentGrid)
        pushed == Append(w.game.gameHistory,
                         [grid |-> c.grid, hintsUsed |-> w.game.hintsUsed,
                          timestamp |-> now])
    IN  [w EXCEPT !.heap = c.heap,
                  !.game.gameHistory =
                      IF Len(pushed) > maxHistory THEN Tail(pushed) ELSE pushed]

\* Mutant: the conflicts are left as they were.
updateConflicts_Stale(w) == w

\* Lines 728-730; getConflicts works on the grid itself.
updateConflicts(w) ==
    LET r == getConflicts(Deref(w.heap, w.game.currentGrid))
    IN  [w EXCEPT !.heap = StoreGrid(@, w.game.currentGrid, r.grid),
                  !.game.conflicts = r.value]

\* Lines 870-874.
autoSave(w, now) ==
    IF w.game.status = "playing"
    THEN [w EXCEPT !.storage = saveCurrentGame(@, Snapshot(w.heap, w.game), now)]
    ELSE w

\* Lines 782-811.
completeGame(w, now) ==
    LET finalTime == (now - w.game.startTime) \div 1000
        stopped == stopTimer(w)
    IN  [stopped EXCEPT
            !.game.status = "completed",
            !.game.elapsedTime = finalTime,
            !.storage = clearCurrentGame(
                recordGameCompletion(@, w.game.difficulty, finalTime,
                                     w.game.hintsUsed, now))]

\* Mutant: the game is completed as soon as no cell is empty.
completeOrSave_WhenFull(w, now) ==
    IF findEmptyCell(Deref(w.heap, w.game.currentGrid)) = NoCell
    THEN completeGame(w, now)
    ELSE autoSave(w, now)

\* Lines 586-592 and 655-661; isComplete works on the grid itself.
completeOrSave(w, now) ==
    LET r == isComplete(Deref(w.heap, w.game.currentGrid))
        checked == [w EXCEPT !.heap = StoreGrid(@, w.game.currentGrid, r.grid)]
    IN  IF r.value THEN completeGame(checked, now) ELSE autoSave(checked, now)

\* Mutant: an initial cell is written like any other (lines 572-575 left out).
inputNumber_NoInitialCheck(w, row, col, number, now) ==
    IF ~Playing(w.game) THEN w
    ELSE LET saved == saveToHistory(w, now)
             written == [saved EXCEPT !.heap =
                            WriteOnHeap(@, saved.game.currentGrid, row, col, number)]
             updated == updateConflicts(written)
         IN  completeOrSave(updated, now)

\* Mutant: a paused game still takes numbers (isPaused not tested, line 567).
inputNumber_WhilePaused(w, row, col, number, now) ==
    IF w.game.status # "playing" THEN w
    ELSE IF w.game.isInitial[row][col] THEN w
    ELSE LET saved == saveToHistory(w, now)
             written == [saved EXCEPT !.heap =
                            WriteOnHeap(@, saved.game.currentGrid, row, col, number)]
             updated == updateConflicts(written)
         IN  completeOrSave(updated, now)

\* Lines 566-596.
inputNumber(w, row, col, number, now) ==
    IF ~Playing(w.game) THEN w
    ELSE IF w.game.isInitial[row][col] THEN w
    ELSE LET saved == saveToHistory(w, now)
             written == [saved EXCEPT !.heap =
                            WriteOnHeap(@, saved.game.currentGrid, row, col, number)]
             updated == updateConflicts(written)
         IN  completeOrSave(updated, now)

\* Lines 602-614.
clearCell(w, row, col, now) ==
    IF ~Playing(w.game) THEN w
    ELSE IF w.game.isInitial[row][col] THEN w
    ELSE inputNumber(w, row, col, EMPTY_CELL, now)

\* Lines 621-628.
selectCell(w, row, col) ==
    IF ~Playing(w.game) THEN w
    ELSE [w EXCEPT !.game.selectedCell = Pos(row, col)]

\* GameController.getHint, lines 634-680, hint being what the engine's
\* getHint returned.
applyHint(w, hint, now) ==
    IF ~Playing(w.game) THEN w
    ELSE IF hint = NoHint THEN w
    ELSE LET saved == saveToHistory(w, now)
             written == [saved EXCEPT
                           !.heap = WriteOnHeap(@, saved.game.currentGrid,
                                                hint.row, hint.col, hint.number),
                           !.game.hintsUsed = @ + 1]
             updated == updateConflicts(written)
         IN  completeOrSave(updated, now)

\* Lines 682-705.
undo(w, now) ==
    IF ~Playing(w.game) THEN w
    ELSE IF Len(w.game.gameHistory) = 0 THEN w
    ELSE LET previousState == w.game.gameHistory[Len(w.game.gameHistory)]
             popped == [w EXCEPT
                          !.game.gameHistory = SubSeq(@, 1, Len(@) - 1),
                          !.game.currentGrid = previousState.grid,
                          !.game.hintsUsed = previousState.hintsUsed]
         IN  autoSave(updateConflicts(popped), now)

\* Lines 735-751.
togglePause(w, now) ==
    IF w.game.status # "playing" THEN w
    ELSE IF ~w.game.isPaused
         THEN stopTimer([w EXCEPT !.game.isPaused = TRUE])
         ELSE startTimer([w EXCEPT !.game.isPaused = FALSE], now)

\* The callback of the interval, lines 761-766.
timerCallback(w, now) ==
    IF Playing(w.game)
    THEN [w EXCEPT !.game.elapsedTime = (now - w.game.startTime) \div 1000,
                   !.game.timer = now]
    ELSE [w EXCEPT !.game.timer = now]

\* Lines 851-865, gameData being a game read from localStorage: every grid
\* of it is a new object.
loadGameState(w, state, id, name, now) ==
    LET p == NewGridOnHeap(w.heap, state.puzzle)
        s == NewGridOnHeap(p.heap, state.solution)
        c == NewGridOnHeap(s.heap, state.currentGrid)
        n == Len(state.gameHistory)
        loaded == [heap |-> c.heap \o
                       [a \in 1 .. (GRID_SIZE * n) |->
                           state.gameHistory[((a - 1) \div GRID_SIZE) + 1].grid
                               [(a - 1) % GRID_SIZE]],
                   game |-> [state EXCEPT
                       !.puzzle = p.grid,
                       !.solution = s.grid,
                       !.currentGrid = c.grid,
                       !.gameHistory = [i \in 1 .. n |->
                           [state.gameHistory[i] EXCEPT !.grid =
                               [k \in 1 .. GRID_SIZE |->
                                   Len(c.heap) + GRID_SIZE * (i - 1) + k]]],
                       !.startTime = now - (state.elapsedTime * 1000),
                       !.isPaused = FALSE,
                       !.id = id,
                       !.name = name] @@ [timer |-> -1],
                   storage |-> w.storage]
    IN  IF state.status = "playing" THEN startTimer(loaded, now) ELSE loaded

\* The world the methods work on, and the state after a method: what is no
\* longer referred to is collected.
World == [heap |-> heap, game |-> game, storage |-> storage]

Becomes(w) ==
    LET c == Collect(w) IN
    /\ heap' = c.heap
    /\ game' = c.game
    /\ storage' = c.storage

Called(name, row, col, num) ==
    /\ op' = name
    /\ args' = [NoArgs EXCEPT !.row = row, !.col = col, !.num = num]

\* The player makes one of the changes left to them, when the call is one
\* that changes the grid.
Spends(accepted) ==
    /\ accepted => env.moves # 0
    /\ env' = IF accepted THEN [env EXCEPT !.moves = Spent(@)] ELSE env

Writable(row, col) == Playing(game) /\ ~game.isInitial[row][col]

\* newGame(difficulty), lines 504-509: the timer is stopped and
\* generatePuzzle called.
NewGameCall ==
    /\ pc = "idle"
    /\ env.newGames # 0
    /\ \E difficulty \in env.difficulties :
          args' = [NoArgs EXCEPT !.difficulty = difficulty]
    /\ game' = stopTimer(World).game
    /\ env' = [env EXCEPT !.newGames = Spent(@)]
    /\ op' = "generatePuzzle"
    /\ pc' = "gen_start"
    /\ grid' = createEmptyGrid
    /\ entry' = createEmptyGrid
    /\ stack' = <<>>
    /\ retval' = FALSE
    /\ gen' = NoGen
    /\ uniq' = NoUniq
    /\ UNCHANGED <<rng, heap, refs, clock, storage>>

\* newGame, lines 511-546: generatePuzzle has returned puzzleData (gen.returned).
NewGameReturn ==
    /\ op = "generatePuzzle"
    /\ pc = "done"
    /\ LET p == NewGridOnHeap(heap, gen.returned.puzzle)
           s == NewGridOnHeap(p.heap, gen.returned.solution)
           c == copyGridOnHeap(s.heap, p.grid)
           started ==
               [heap |-> c.heap,
                game |-> [puzzle |-> p.grid,
                          solution |-> s.grid,
                          currentGrid |-> c.grid,
                          isInitial |-> createInitialFlags(Deref(c.heap, p.grid)),
                          selectedCell |-> NoCell,
                          difficulty |-> args.difficulty,
                          status |-> "playing",
                          startTime |-> clock,
                          elapsedTime |-> 0,
                          hintsUsed |-> 0,
                          conflicts |-> <<>>,
                          gameHistory |-> <<>>,
                          isPaused |-> FALSE,
                          timer |-> game.timer,
                          id |-> NoId,
                          name |-> NoName],
                storage |-> recordGameStart(storage, clock)]
       IN  Becomes(autoSave(startTimer(started, clock), clock))
    /\ env' = [env EXCEPT !.played = 0]
    /\ op' = "newGame"
    /\ pc' = "idle"
    /\ UNCHANGED <<grid, entry, stack, retval, rng, args, gen, uniq, refs, clock>>

InputNumber ==
    /\ pc = "idle"
    /\ \E p \in env.cells : \E number \in env.numbers :
          /\ Spends(Writable(p.row, p.col))
          /\ Becomes(inputNumber(World, p.row, p.col, number, clock))
          /\ Called("inputNumber", p.row, p.col, number)
    /\ UNCHANGED <<pc, grid, entry, stack, retval, rng, gen, uniq, refs, clock>>

ClearCell ==
    /\ pc = "idle"
    /\ \E p \in env.clears :
          /\ Spends(Writable(p.row, p.col))
          /\ Becomes(clearCell(World, p.row, p.col, clock))
          /\ Called("clearCell", p.row, p.col, EMPTY_CELL)
    /\ UNCHANGED <<pc, grid, entry, stack, retval, rng, gen, uniq, refs, clock>>

SelectCell ==
    /\ pc = "idle"
    /\ \E p \in env.selects :
          /\ Becomes(selectCell(World, p.row, p.col))
          /\ Called("selectCell", p.row, p.col, EMPTY_CELL)
    /\ UNCHANGED <<pc, grid, entry, stack, retval, rng, gen, uniq, refs, clock, env>>

\* GameController.getHint, lines 634-680; the engine draws a random number
\* when no cell has a single candidate.
GetHint ==
    /\ pc = "idle"
    /\ IF Playing(game)
       THEN LET puzzle == Deref(heap, game.currentGrid)
                emptyCells == CollectEmptyFrom(puzzle, 0)
            IN  /\ \E hint \in getHint(puzzle, Deref(heap, game.solution), rng) :
                      /\ Spends(hint # NoHint)
                      /\ Becomes(applyHint(World, hint, clock))
                /\ rng' = IF emptyCells # <<>> /\ FirstSingle(puzzle, emptyCells) = 0
                          THEN RandomNext(rng) ELSE rng
       ELSE /\ Becomes(World)
            /\ UNCHANGED <<rng, env>>
    /\ Called("getHint", 0, 0, EMPTY_CELL)
    /\ UNCHANGED <<pc, grid, entry, stack, retval, gen, uniq, refs, clock>>

Undo ==
    /\ pc = "idle"
    /\ Becomes(undo(World, clock))
    /\ Called("undo", 0, 0, EMPTY_CELL)
    /\ UNCHANGED <<pc, grid, entry, stack, retval, rng, gen, uniq, refs, clock, env>>

TogglePause ==
    /\ pc = "idle"
    /\ env.pauses # 0
    /\ env' = [env EXCEPT !.pauses = Spent(@)]
    /\ Becomes(togglePause(World, clock))
    /\ Called("togglePause", 0, 0, EMPTY_CELL)
    /\ UNCHANGED <<pc, grid, entry, stack, retval, rng, gen, uniq, refs, clock>>

\* The interval fires, a second or more after it was set or last fired.
TimerTick ==
    /\ pc = "idle"
    /\ game.timer >= 0
    /\ clock - game.timer >= 1000
    /\ Becomes(timerCallback(World, clock))
    /\ Called("timer", 0, 0, EMPTY_CELL)
    /\ UNCHANGED <<pc, grid, entry, stack, retval, rng, gen, uniq, refs, clock, env>>

ClockStep == 500

\* Time passes between two calls.
ClockAdvance ==
    /\ pc = "idle"
    /\ clock < env.maxClock
    /\ clock' = clock + ClockStep
    /\ env' = IF Playing(game) THEN [env EXCEPT !.played = @ + ClockStep] ELSE env
    /\ UNCHANGED <<op, pc, grid, entry, stack, retval, rng, args, gen, uniq, heap, refs,
                   game, storage>>

\* GameController.saveGame(name), lines 816-829.
SaveGame ==
    /\ pc = "idle"
    /\ env.saves # 0
    /\ env' = [env EXCEPT !.saves = Spent(@)]
    /\ IF game.status # "playing"
       THEN UNCHANGED <<storage, rng>>
       ELSE /\ \E name \in env.names : \E random \in RandomValues(rng) :
                  storage' = saveGame(storage, Snapshot(heap, game), name, clock, random)
            /\ rng' = RandomNext(rng)
    /\ Called("saveGame", 0, 0, EMPTY_CELL)
    /\ UNCHANGED <<pc, grid, entry, stack, retval, gen, uniq, heap, refs, game, clock>>

SavedIds == {storage.savedGames[i].id : i \in 1 .. Len(storage.savedGames)}

\* GameController.loadGame(gameId), lines 835-845, with the id of a game of
\* the list.
LoadGame ==
    /\ pc = "idle"
    /\ env.loads # 0
    /\ \E gameId \in SavedIds :
          LET gameData == loadSavedGame(storage, gameId)[1] IN
          /\ Becomes(loadGameState(stopTimer(World), gameData.state, gameData.id,
                                   gameData.name, clock))
          /\ env' = [env EXCEPT !.loads = Spent(@),
                                !.played = gameData.state.elapsedTime * 1000]
    /\ Called("loadGame", 0, 0, EMPTY_CELL)
    /\ UNCHANGED <<pc, grid, entry, stack, retval, rng, gen, uniq, refs, clock>>

\* GameController.deleteSavedGame(gameId), lines 889-899.
DeleteSavedGame ==
    /\ pc = "idle"
    /\ env.deletes # 0
    /\ env' = [env EXCEPT !.deletes = Spent(@)]
    /\ \E gameId \in SavedIds : storage' = deleteSavedGame(storage, gameId)
    /\ Called("deleteSavedGame", 0, 0, EMPTY_CELL)
    /\ UNCHANGED <<pc, grid, entry, stack, retval, rng, gen, uniq, heap, refs, game,
                   clock>>

(***************************************************************************)
(* SpecSolve: solveSudoku on every input grid, with an unconstrained       *)
(* random source (every shuffle can give every permutation).               *)
(***************************************************************************)
InitSolve ==
    /\ op = "solveSudoku"
    /\ pc = "solve_call"
    /\ grid \in InputGrids
    /\ entry = grid
    /\ stack = <<>>
    /\ retval = FALSE
    /\ rng = -1
    /\ args = NoArgs
    /\ gen = NoGen
    /\ uniq = NoUniq
    /\ heap = <<>>
    /\ refs = NoRefs
    /\ game = NoGame
    /\ clock = 0
    /\ env = NoEnv
    /\ storage = NoStorage

NextSolve == SolveCall \/ SolveLoop \/ SolveReturn \/ SolveSudokuDone

SpecSolve == InitSolve /\ [][NextSolve]_vars

(***************************************************************************)
(* The vocabulary of the claims, stated without the code's operators.      *)
(***************************************************************************)
SameBox(p, q) ==
    /\ p.row \div 3 = q.row \div 3
    /\ p.col \div 3 = q.col \div 3

\* q is another cell of the row, the column or the box of p.
IsPeer(p, q) ==
    q # p /\ (q.row = p.row \/ q.col = p.col \/ SameBox(p, q))

PeerHas(g, p, v) ==
    \E r \in 0 .. 8 : \E c \in 0 .. 8 :
        g[r][c] = v /\ IsPeer(p, [row |-> r, col |-> c])

EmptyCells(g) == {p \in Positions : g[p.row][p.col] = 0}

FilledCells(g) == {p \in Positions : g[p.row][p.col] # 0}

\* A filled cell whose value also occurs in another cell of its row, column or box.
InConflict(g, p) == g[p.row][p.col] # 0 /\ PeerHas(g, p, g[p.row][p.col])

HasDuplicate(g) == \E p \in Positions : InConflict(g, p)

\* No empty cell, and each digit exactly once in every row, column and box.
IsSolutionGrid(g) ==
    /\ \A r \in 0 .. 8 : \A c \in 0 .. 8 : g[r][c] \in 1 .. 9
    /\ \A r \in 0 .. 8 : \A d \in 1 .. 9 :
          Cardinality({c \in 0 .. 8 : g[r][c] = d}) = 1
    /\ \A c \in 0 .. 8 : \A d \in 1 .. 9 :
          Cardinality({r \in 0 .. 8 : g[r][c] = d}) = 1
    /\ \A b \in 0 .. 8 : \A d \in 1 .. 9 :
          Cardinality({k \in 0 .. 8 :
              g[3 * (b \div 3) + (k \div 3)][3 * (b % 3) + (k % 3)] = d}) = 1

\* h agrees with g on every filled cell of g.
Extends(h, g) == \A p \in FilledCells(g) : h[p.row][p.col] = g[p.row][p.col]

(***************************************************************************)
(* FillingsOf(g): the full grids that extend g in which no cell that is    *)
(* empty in g repeats the value of a peer.  (A digit a peer already holds  *)
(* can be in no such grid, so it is left out as the cells are filled.)     *)
(* ValidCompletions(g): the complete valid grids that extend g.            *)
(***************************************************************************)
RECURSIVE FillingsOf(_)
FillingsOf(g) ==
    IF EmptyCells(g) = {} THEN {g}
    ELSE LET p == CHOOSE q \in EmptyCells(g) : TRUE IN
         UNION {FillingsOf([g EXCEPT ![p.row][p.col] = v]) :
                    v \in {d \in 1 .. 9 : ~PeerHas(g, p, d)}}

ValidCompletions(g) == {h \in FillingsOf(g) : IsSolutionGrid(h)}

\* The grid at entry with the assignment each active frame has made.
RECURSIVE WithAssignments(_, _)
WithAssignments(g, frames) ==
    IF frames = <<>> THEN g
    ELSE LET f == frames[1] IN
         WithAssignments([g EXCEPT ![f.row][f.col] = f.possibilities[f.next - 1]],
                         Tail(frames))

SolveReturned == op = "solveSudoku" /\ pc = "done"

(***************************************************************************)
(* C4: whenever solveSudoku returns false the grid is cell for cell the    *)
(* grid at entry; at every depth of the recursion, a call that returns     *)
(* false leaves only the assignments of the calls still active above it.   *)
(***************************************************************************)
C4_RestoredOnFailure ==
    /\ (SolveReturned /\ ~retval) => grid = entry
    /\ (op = "solveSudoku" /\ pc = "solve_ret" /\ ~retval)
          => grid = WithAssignments(entry, stack)

\* A failing outermost return after a search that did assign candidates.
C4_Witness ==
    /\ SolveReturned /\ ~retval
    /\ LET e == findEmptyCell(entry) IN
          e # NoCell /\ getPossibleNumbers(entry, e.row, e.col) # <<>>

(***************************************************************************)
(* C5: on an input whose filled cells are free of conflicts, a true return *)
(* leaves a grid with no empty cell and each digit once per row, column    *)
(* and box, which agrees with the input on every cell filled at entry.     *)
(***************************************************************************)
C5_SolvedOnSuccess ==
    (SolveReturned /\ retval /\ ~HasDuplicate(entry))
        => (IsSolutionGrid(grid) /\ Extends(grid, entry))

C5_Witness ==
    /\ SolveReturned /\ retval /\ ~HasDuplicate(entry)
    /\ Cardinality(EmptyCells(entry)) >= 3
    /\ grid # PatternGrid

(***************************************************************************)
(* C6 as claimed: for every input, conflicting or not, solveSudoku returns *)
(* true exactly when a complete valid grid extends the input.              *)
(***************************************************************************)
C6_AsClaimed ==
    SolveReturned => (retval <=> ValidCompletions(entry) # {})

(***************************************************************************)
(* C6 amended: solveSudoku returns true exactly when the empty cells can   *)
(* be filled so that no filled-in cell repeats a peer, whatever the        *)
(* candidate order; on an input whose filled cells are free of conflicts   *)
(* that is exactly when a complete valid grid extends the input.           *)
(***************************************************************************)
C6_Decides ==
    SolveReturned =>
        /\ retval <=> FillingsOf(entry) # {}
        /\ ~HasDuplicate(entry) => (retval <=> ValidCompletions(entry) # {})

\* A conflict-free input with a candidate for its first cell and no completion.
C6_Witness ==
    /\ SolveReturned /\ ~retval /\ ~HasDuplicate(entry)
    /\ Cardinality(EmptyCells(entry)) >= 3
    /\ LET e == findEmptyCell(entry) IN
          Len(getPossibleNumbers(entry, e.row, e.col)) >= 1

(***************************************************************************)
(* SpecValid: the validators applied to input grids.  Each action is one   *)
(* call: it leaves in grid the grid as the call leaves it and in retval    *)
(* the value returned.  isValidMove is called at every position with       *)
(* every digit.                                                            *)
(***************************************************************************)
ProbePool == {Pos(0, 0), Pos(0, 1), Pos(3, 0)}

ProbeGrids == GridsFrom(ProbePool, Cardinality(ProbePool))

InitValid ==
    /\ op = "idle"
    /\ pc = "idle"
    /\ grid \in ProbeGrids
    /\ entry = grid
    /\ stack = <<>>
    /\ retval = FALSE
    /\ rng = -1
    /\ args = NoArgs
    /\ gen = NoGen
    /\ uniq = NoUniq
    /\ heap = <<>>
    /\ refs = NoRefs
    /\ game = NoGame
    /\ clock = 0
    /\ env = NoEnv
    /\ storage = NoStorage

CallIsValidMove ==
    /\ pc = "idle"
    /\ \E row \in Idx, col \in Idx, num \in Digits :
          /\ args' = [args EXCEPT !.row = row, !.col = col, !.num = num]
          /\ retval' = isValidMove(grid, row, col, num)
    /\ op' = "isValidMove"
    /\ pc' = "done"
    /\ UNCHANGED <<grid, entry, stack, rng, gen, uniq, heap, refs,
                 game, clock, env, storage>>

CallIsValidGrid ==
    /\ pc = "idle"
    /\ op' = "isValidGrid"
    /\ pc' = "done"
    /\ grid' = isValidGrid(grid).grid
    /\ retval' = isValidGrid(grid).value
    /\ UNCHANGED <<entry, stack, rng, args, gen, uniq, heap, refs,
                 game, clock, env, storage>>

CallIsComplete ==
    /\ pc = "idle"
    /\ op' = "isComplete"
    /\ pc' = "done"
    /\ grid' = isComplete(grid).grid
    /\ retval' = isComplete(grid).value
    /\ UNCHANGED <<entry, stack, rng, args, gen, uniq, heap, refs,
                 game, clock, env, storage>>

CallGetConflicts ==
    /\ pc = "idle"
    /\ op' = "getConflicts"
    /\ pc' = "done"
    /\ grid' = getConflicts(grid).grid
    /\ retval' = getConflicts(grid).value
    /\ UNCHANGED <<entry, stack, rng, args, gen, uniq, heap, refs,
                 game, clock, env, storage>>
CallGetRelatedCells ==
    /\ pc = "idle"
    /\ \E row \in Idx, col \in Idx :
          /\ args' = [args EXCEPT !.row = row, !.col = col]
          /\ retval' = getRelatedCells(row, col)
    /\ op' = "getRelatedCells"
    /\ pc' = "done"
    /\ UNCHANGED <<grid, entry, stack, rng, gen, uniq, heap, refs,
                 game, clock, env, storage>>

NextValid ==
    \/ CallIsValidMove \/ CallIsValidGrid \/ CallIsComplete \/ CallGetConflicts
    \/ CallGetRelatedCells

SpecValid == InitValid /\ [][NextValid]_vars

Returned(name) == op = name /\ pc = "done"

ArgCell == Pos(args.row, args.col)

(***************************************************************************)
(* C7 as claimed: isValidMove(grid, row, col, num) is true iff num occurs  *)
(* in no OTHER cell of the row, the column or the box, and the value       *)
(* stored at (row, col) does not influence the result.                     *)
(***************************************************************************)
C7_AsClaimed ==
    Returned("isValidMove") =>
        /\ retval <=> ~PeerHas(entry, ArgCell, args.num)
        /\ \A v \in 0 .. 9 :
              isValidMove(SetCell(entry, args.row, args.col, v),
                          args.row, args.col, args.num) = retval

(***************************************************************************)
(* C7 amended: isValidMove is true iff num occurs in no cell of the row,   *)
(* the column or the box, the cell (row, col) included: it is false when   *)
(* (row, col) itself holds num.  With any value other than num (empty      *)
(* included) stored at (row, col), it is true iff num occurs in no other   *)
(* cell of the row, column or box.                                         *)
(***************************************************************************)
C7_ValidMove ==
    Returned("isValidMove") =>
        /\ retval <=> (entry[args.row][args.col] # args.num
                        /\ ~PeerHas(entry, ArgCell, args.num))
        /\ \A v \in (0 .. 9) \ {args.num} :
              isValidMove(SetCell(entry, args.row, args.col, v),
                          args.row, args.col, args.num)
                  <=> ~PeerHas(entry, ArgCell, args.num)

\* A true answer for a digit at an empty cell, which the same cell holding
\* that digit would turn false.
C7_Witness ==
    /\ Returned("isValidMove") /\ retval
    /\ entry[args.row][args.col] = 0
    /\ ~isValidMove(SetCell(entry, args.row, args.col, args.num),
                    args.row, args.col, args.num)

(***************************************************************************)
(* C8: isComplete is true iff the grid has no empty cell and every row,    *)
(* column and box holds each digit exactly once; a complete correct grid   *)
(* with one cell changed to a value its row already holds is not complete. *)
(***************************************************************************)
C8_Complete ==
    Returned("isComplete") => (retval <=> IsSolutionGrid(entry))

\* isComplete has answered false on a full grid that is PatternGrid with
\* one cell changed.
C8_Witness ==
    /\ Returned("isComplete") /\ ~retval
    /\ EmptyCells(entry) = {}
    /\ Cardinality({p \in Positions :
           entry[p.row][p.col] # PatternGrid[p.row][p.col]}) = 1

(***************************************************************************)
(* C9: getConflicts returns exactly the filled positions whose value also  *)
(* occurs in another cell of the row, column or box, each once; it is      *)
(* empty iff the grid has no duplicate, iff isValidGrid is true.           *)
(***************************************************************************)
SeqToSet(seq) == {seq[i] : i \in 1 .. Len(seq)}

C9_Conflicts ==
    Returned("getConflicts") =>
        /\ SeqToSet(retval) = {p \in Positions : InConflict(entry, p)}
        /\ Cardinality(SeqToSet(retval)) = Len(retval)
        /\ (retval = <<>>) <=> ~HasDuplicate(entry)
        /\ (retval = <<>>) <=> isValidGrid(entry).value

\* A grid with empty cells and a duplicate: both cells of a pair are reported.
C9_Witness ==
    /\ Returned("getConflicts")
    /\ EmptyCells(entry) # {}
    /\ \E i, j \in 1 .. Len(retval) :
          /\ i # j
          /\ retval[i].row = retval[j].row
          /\ entry[retval[i].row][retval[i].col] = entry[retval[j].row][retval[j].col]

(***************************************************************************)
(* SpecUnique: hasUniqueSolution on every input grid and on the empty      *)
(* grid.                                                                   *)
(***************************************************************************)
InitUnique ==
    /\ op = "hasUniqueSolution"
    /\ pc = "hu_call"
    /\ grid \in InputGrids \cup {createEmptyGrid}
    /\ entry = grid
    /\ stack = <<>>
    /\ retval = FALSE
    /\ rng = -1
    /\ args = NoArgs
    /\ gen = NoGen
    /\ uniq = NoUniq
    /\ heap = <<>>
    /\ refs = NoRefs
    /\ game = NoGame
    /\ clock = 0
    /\ env = NoEnv
    /\ storage = NoStorage

NextUnique == UniqueCall \/ FindAllCall \/ FindAllLoop \/ FindAllReturn \/ UniqueDone

SpecUnique == InitUnique /\ [][NextUnique]_vars

(***************************************************************************)
(* SpecGen: generatePuzzle with the random source seeded with each of the  *)
(* seeds 0 .. MaxSeed - 1, for the difficulties easy and medium, and for   *)
(* hard with the seeds below MaxHardSeed (a hard run makes up to 39 calls  *)
(* of hasUniqueSolution, each a search of its own).                        *)
(***************************************************************************)
MaxSeed == 20

MaxHardSeed == 3

InitGen ==
    /\ op = "generatePuzzle"
    /\ pc = "gen_start"
    /\ grid = createEmptyGrid
    /\ entry = grid
    /\ stack = <<>>
    /\ retval = FALSE
    /\ rng \in 0 .. (MaxSeed - 1)
    /\ args \in {[NoArgs EXCEPT !.difficulty = d] : d \in Difficulties}
    /\ args.difficulty = "hard" => rng < MaxHardSeed
    /\ gen = NoGen
    /\ uniq = NoUniq
    /\ heap = <<>>
    /\ refs = NoRefs
    /\ game = NoGame
    /\ clock = 0
    /\ env = NoEnv
    /\ storage = NoStorage

NextGen ==
    \/ GenerateComplete \/ SolveCall \/ SolveLoop \/ SolveReturn
    \/ GenerateCopy \/ GenerateShuffle \/ GenerateLoop
    \/ UniqueCall \/ FindAllCall \/ FindAllLoop \/ FindAllReturn \/ UniqueDone
    \/ GenerateChecked \/ GenerateReturn

SpecGen == InitGen /\ [][NextGen]_vars

(***************************************************************************)
(* C1: the grid generateCompleteSudoku returns has no empty cell and each  *)
(* digit once in every row, column and box, and solveSudoku has returned   *)
(* true on the grid fillDiagonalBoxes produced.                            *)
(***************************************************************************)
CompleteReturned == op = "generatePuzzle" /\ pc = "solve_ret" /\ stack = <<>>

C1_GeneratedComplete == CompleteReturned => (retval = TRUE /\ IsSolutionGrid(grid))

\* A returned grid whose first box is a shuffled one.
C1_Witness ==
    /\ CompleteReturned
    /\ EmptyCells(grid) = {}
    /\ <<grid[0][0], grid[0][1], grid[0][2]>> # <<1, 2, 3>>

(***************************************************************************)
(* C2: after every step of the removal loop, a rejected and restored       *)
(* removal included, and in the result, every non-empty cell of the puzzle *)
(* equals the cell of the solution, and the solution is a complete valid   *)
(* grid.                                                                   *)
(***************************************************************************)
InRemovalLoop ==
    op = "generatePuzzle" /\ pc \in {"gen_loop", "hu_call", "gen_checked", "gen_return"}

GenerateReturned == op = "generatePuzzle" /\ pc = "done"

C2_PuzzleMasksSolution ==
    /\ InRemovalLoop => (IsSolutionGrid(gen.solution) /\ Extends(gen.solution, grid))
    /\ GenerateReturned =>
          /\ IsSolutionGrid(gen.returned.solution)
          /\ Extends(gen.returned.solution, gen.returned.puzzle)

\* The loop goes on after a removal that was rejected and restored.
C2_Witness ==
    /\ op = "generatePuzzle" /\ pc = "gen_loop"
    /\ args.difficulty = "hard"
    /\ retval = FALSE
    /\ gen.attempts > gen.removed
    /\ grid[gen.positions[gen.next - 1].row][gen.positions[gen.next - 1].col] # 0

(***************************************************************************)
(* C3: the result of generatePuzzle(d) has filledCells equal to the number *)
(* of non-empty cells of the puzzle, between DIFFICULTY_CONFIG[d]          *)
(* .filledCells and 81, and isValidGrid(puzzle) is true.                   *)
(***************************************************************************)
C3_FilledCells ==
    GenerateReturned =>
        /\ gen.returned.filledCells = Cardinality(FilledCells(gen.returned.puzzle))
        /\ DIFFICULTY_CONFIG[gen.returned.difficulty].filledCells <=
               gen.returned.filledCells
        /\ gen.returned.filledCells <= 81
        /\ isValidGrid(gen.returned.puzzle).value
        /\ ~HasDuplicate(gen.returned.puzzle)

\* A hard puzzle that keeps more cells than its target.
C3_Witness ==
    /\ GenerateReturned
    /\ gen.returned.difficulty = "hard"
    /\ gen.returned.filledCells > DIFFICULTY_CONFIG.hard.filledCells

(***************************************************************************)
(* C10 as claimed: for every input, full or conflicting grids included,    *)
(* hasUniqueSolution is true iff exactly one complete valid grid agrees    *)
(* with the input on its filled cells; it is false on the empty grid.      *)
(***************************************************************************)
UniqueReturned == op = "hasUniqueSolution" /\ pc = "done"

C10_AsClaimed ==
    UniqueReturned =>
        IF entry = createEmptyGrid THEN ~retval
        ELSE retval <=> Cardinality(ValidCompletions(entry)) = 1

(***************************************************************************)
(* C10 amended: hasUniqueSolution is true iff there is exactly one way to  *)
(* fill the empty cells so that no filled-in cell repeats a peer; on an    *)
(* input whose filled cells are free of conflicts that is iff exactly one  *)
(* complete valid grid agrees with the input.  On the empty grid it is     *)
(* false, having found two distinct complete valid grids.                  *)
(***************************************************************************)
C10_Unique ==
    UniqueReturned =>
        IF entry = createEmptyGrid
        THEN /\ ~retval
             /\ Len(uniq.solutions) = 2
             /\ uniq.solutions[1] # uniq.solutions[2]
             /\ IsSolutionGrid(uniq.solutions[1])
             /\ IsSolutionGrid(uniq.solutions[2])
        ELSE /\ retval <=> Cardinality(FillingsOf(entry)) = 1
             /\ ~HasDuplicate(entry) =>
                   (retval <=> Cardinality(ValidCompletions(entry)) = 1)

\* A conflict-free input with exactly two completions, answered false.
C10_Witness ==
    /\ UniqueReturned /\ ~retval
    /\ entry # createEmptyGrid
    /\ ~HasDuplicate(entry)
    /\ Cardinality(ValidCompletions(entry)) = 2

(***************************************************************************)
(* C11: hasUniqueSolution never changes the grid it is given, and when     *)
(* the search returns, stopped at two solutions or exhausted, the working  *)
(* copy holds the contents of the input again.                             *)
(***************************************************************************)
SearchReturned == pc = "fa_ret" /\ stack = <<>>

C11_GridUntouched ==
    op = "hasUniqueSolution" =>
        /\ grid = entry
        /\ (SearchReturned \/ UniqueReturned) => uniq.work = entry

\* The search has stopped early, at two solutions found six cells deep.
C11_Witness ==
    /\ UniqueReturned
    /\ Len(uniq.solutions) = MaxSolutions
    /\ Cardinality(EmptyCells(entry)) = 6
    /\ uniq.work = entry

(***************************************************************************)
(* SpecHint: getHint on every input grid, full and conflicting grids       *)
(* included, with either of two complete valid grids as the solution:      *)
(* PatternGrid, and SwappedGrid, which is PatternGrid with the digits 1    *)
(* and 4 exchanged on the six cells of Cycle.  The random source is        *)
(* unconstrained, so the fallback can pick any empty cell.                 *)
(***************************************************************************)
Cycle == {Pos(0, 0), Pos(0, 3), Pos(1, 0), Pos(1, 6), Pos(2, 3), Pos(2, 6)}

SwappedGrid ==
    [r \in Idx |-> [c \in Idx |->
        IF Pos(r, c) \in Cycle THEN 5 - PatternGrid[r][c] ELSE PatternGrid[r][c]]]

InitHint ==
    /\ op = "idle"
    /\ pc = "idle"
    /\ grid \in InputGrids
    /\ entry = grid
    /\ stack = <<>>
    /\ retval = FALSE
    /\ rng = -1
    /\ args \in {[NoArgs EXCEPT !.solution = s] : s \in {PatternGrid, SwappedGrid}}
    /\ gen = NoGen
    /\ uniq = NoUniq
    /\ heap = <<>>
    /\ refs = NoRefs
    /\ game = NoGame
    /\ clock = 0
    /\ env = NoEnv
    /\ storage = NoStorage

\* getHint(grid, solution).  It writes no cell; the state of the random
\* source is not followed past the call.
CallGetHint ==
    /\ pc = "idle"
    /\ retval' \in getHint(grid, args.solution, rng)
    /\ op' = "getHint"
    /\ pc' = "done"
    /\ UNCHANGED <<grid, entry, stack, rng, args, gen, uniq, heap, refs,
                 game, clock, env, storage>>

NextHint == CallGetHint

SpecHint == InitHint /\ [][NextHint]_vars

HintReturned == op = "getHint" /\ pc = "done"

(***************************************************************************)
(* C12: getHint returns none iff the grid has no empty cell; otherwise     *)
(* the hint names an empty cell of the grid and a number in 1..9,          *)
(* whatever the grid (conflicts included) and whatever the random choice.  *)
(***************************************************************************)
C12_HintExists ==
    HintReturned =>
        /\ (retval = NoHint) <=> (EmptyCells(grid) = {})
        /\ retval # NoHint =>
              /\ retval.row \in 0 .. 8
              /\ retval.col \in 0 .. 8
              /\ grid[retval.row][retval.col] = 0
              /\ retval.number \in 1 .. 9

\* A hint from the random tier on a grid whose filled cells conflict.
C12_Witness ==
    /\ HintReturned
    /\ HasDuplicate(grid)
    /\ retval # NoHint
    /\ FirstSingle(grid, CollectEmptyFrom(grid, 0)) = 0
    /\ Cardinality(getHint(grid, args.solution, rng)) > 1

(***************************************************************************)
(* SpecPlay: legal play, then a hint.  The game starts at a position in    *)
(* which all but a few blanks of the puzzle hold their solution value      *)
(* (PatternGrid with some cells of PlayPool, or the cells of Cycle,        *)
(* empty); the player then enters numbers, each into an empty cell and     *)
(* each a valid move when it is made, and asks for a hint.                 *)
(***************************************************************************)
PlayPool == {Pos(0, 0), Pos(0, 1), Pos(3, 0), Pos(8, 1)}

PlayGrids == BlankedGrids(PlayPool, Cardinality(PlayPool)) \cup {Blank(PatternGrid, Cycle)}

InitPlay ==
    /\ op = "idle"
    /\ pc = "idle"
    /\ grid \in PlayGrids
    /\ entry = grid
    /\ stack = <<>>
    /\ retval = FALSE
    /\ rng = -1
    /\ args = [NoArgs EXCEPT !.solution = PatternGrid]
    /\ gen = NoGen
    /\ uniq = NoUniq
    /\ heap = <<>>
    /\ refs = NoRefs
    /\ game = NoGame
    /\ clock = 0
    /\ env = NoEnv
    /\ storage = NoStorage

\* The player writes num into the empty cell (row, col), where it repeats
\* no value of the row, the column or the box.
PlayerEntry ==
    /\ pc = "idle"
    /\ \E row \in Idx, col \in Idx, num \in Digits :
          /\ grid[row][col] = EMPTY_CELL
          /\ isValidMove(grid, row, col, num)
          /\ grid' = SetCell(grid, row, col, num)
          /\ args' = [args EXCEPT !.row = row, !.col = col, !.num = num]
    /\ UNCHANGED <<op, pc, entry, stack, retval, rng, gen, uniq, heap, refs,
                 game, clock, env, storage>>

NextPlay == PlayerEntry \/ CallGetHint

SpecPlay == InitPlay /\ [][NextPlay]_vars

(***************************************************************************)
(* C13 as claimed: on every grid reached by legal play, every hint that    *)
(* getHint returns carries the number the solution has at that cell.       *)
(* The code does not satisfy it: after the entry of 2 at (0,0), legal when *)
(* (0,0), (0,1), (3,0) and (8,1) are empty, the cell (0,1) has the single  *)
(* candidate 1 and getHint returns it, where the solution has 2.           *)
(***************************************************************************)
C13_AsClaimed ==
    (HintReturned /\ retval # NoHint) =>
        retval.number = args.solution[retval.row][retval.col]

(***************************************************************************)
(* C14 as claimed: on a grid with exactly one empty cell (r, c), whatever  *)
(* the other cells hold, getHint returns (r, c) with the number the        *)
(* solution has there.  The code does not satisfy it: on PatternGrid with  *)
(* (0,3) empty and SwappedGrid as the solution, the single candidate 4 is  *)
(* returned, where the solution has 1.                                     *)
(***************************************************************************)
C14_AsClaimed ==
    (HintReturned /\ Cardinality(EmptyCells(grid)) = 1) =>
        \E p \in EmptyCells(grid) :
            retval = [row |-> p.row, col |-> p.col,
                      number |-> args.solution[p.row][p.col]]

(***************************************************************************)
(* SpecRemove: the removal loop of generatePuzzle (lines 273-304) from the *)
(* state in which line 271 leaves it, for each difficulty, with            *)
(* PatternGrid as the solution and RemovalOrder as the shuffled positions  *)
(* (position k stands for row k \div 9, column k % 9).  Every complete     *)
(* grid and every order of the positions is an outcome of the random       *)
(* source; this order is one after whose first 42 removals the puzzle      *)
(* still has one solution, so that in a hard run some of the guarded       *)
(* removals are kept and others are rejected.                              *)
(***************************************************************************)
RemovalOrder ==
    << 0, 31, 63,  6, 49, 41,  2,  3, 17, 13, 59,  9,  5, 66, 19, 25, 75, 18,
      37, 76, 45, 51, 80, 16, 67, 69, 36, 68, 12, 57, 30, 54, 38, 40, 22, 42,
      62, 26, 28, 77, 53, 43, 60, 44, 74,  8, 48, 58, 52, 61, 14, 15, 79, 35,
      78, 33, 73, 24, 71, 29, 23,  1, 70, 72, 34, 64, 56, 47, 65, 50, 55, 20,
       4, 27, 32, 39, 21, 46, 10, 11,  7>>

InitRemove ==
    /\ op = "generatePuzzle"
    /\ pc = "gen_loop"
    /\ grid = PatternGrid
    /\ entry = createEmptyGrid
    /\ stack = <<>>
    /\ retval = TRUE
    /\ rng = -1
    /\ args \in {[NoArgs EXCEPT !.difficulty = d] : d \in Difficulties}
    /\ gen = [NoGen EXCEPT !.solution = PatternGrid,
                           !.positions = [k \in 1 .. (GRID_SIZE * GRID_SIZE) |->
                               Pos(RemovalOrder[k] \div GRID_SIZE,
                                   RemovalOrder[k] % GRID_SIZE)]]
    /\ uniq = NoUniq
    /\ heap = <<>>
    /\ refs = NoRefs
    /\ game = NoGame
    /\ clock = 0
    /\ env = NoEnv
    /\ storage = NoStorage

NextRemove ==
    \/ GenerateLoop
    \/ UniqueCall \/ FindAllCall \/ FindAllLoop \/ FindAllReturn \/ UniqueDone
    \/ GenerateChecked \/ GenerateReturn

SpecRemove == InitRemove /\ [][NextRemove]_vars

(***************************************************************************)
(* C15: each step of the removal loop.  An attempt clears the next         *)
(* position.  For easy and medium, and for hard while removed is at most   *)
(* 0.7 * cellsToRemove, the removal is kept at once and no uniqueness      *)
(* check is made.  For hard beyond that, hasUniqueSolution is called, and  *)
(* when it has returned the removal is kept, and removed incremented, only *)
(* if the puzzle with the cell cleared has exactly one solution; if not,   *)
(* the cell gets back the value of the solution and removed is unchanged.  *)
(***************************************************************************)
Guarded ==
    /\ args.difficulty = "hard"
    /\ 10 * gen.removed > 7 * (81 - DIFFICULTY_CONFIG.hard.filledCells)

C15_Step ==
    LET pos == gen.positions[gen.next] IN
    /\ (pc = "gen_loop" /\ pc' # "gen_return") =>
          /\ grid' = [grid EXCEPT ![pos.row][pos.col] = 0]
          /\ IF Guarded
             THEN pc' = "hu_call" /\ gen'.removed = gen.removed
             ELSE /\ pc' = "gen_loop"
                  /\ gen'.removed = gen.removed + 1
                  /\ gen'.next = gen.next + 1
                  /\ uniq' = uniq
    /\ pc' = "hu_call" => (pc = "gen_loop" /\ Guarded)
    /\ pc = "gen_checked" =>
          /\ grid[pos.row][pos.col] = 0
          /\ gen'.next = gen.next + 1
          /\ IF Cardinality(ValidCompletions(grid)) = 1
             THEN grid' = grid /\ gen'.removed = gen.removed + 1
             ELSE /\ grid' = [grid EXCEPT ![pos.row][pos.col] =
                                              gen.solution[pos.row][pos.col]]
                  /\ gen'.removed = gen.removed

C16_RelatedCells ==
    Returned("getRelatedCells") =>
        /\ Len(retval) = 20
        /\ \A i, j \in 1 .. Len(retval) : i # j => retval[i] # retval[j]
        /\ \A i \in 1 .. Len(retval) : retval[i] # ArgCell
        /\ SeqToSet(retval) = {q \in Positions : IsPeer(ArgCell, q)}

\* The centre cell: its 20 related cells, the first of them (4,0).
C16_Witness ==
    /\ Returned("getRelatedCells")
    /\ ArgCell = Pos(4, 4)
    /\ Len(retval) = 20
    /\ retval[1] = Pos(4, 0)

(***************************************************************************)
(* SpecCopy: the grids of generatePuzzle and of the game that receives     *)
(* its result, on the heap: the solution, the puzzle copied from it and    *)
(* written by the removal loop, the two copies returned, currentGrid       *)
(* copied from the returned puzzle and written by the player, and the      *)
(* copy of currentGrid that saveToHistory keeps.                           *)
(***************************************************************************)
InitCopy ==
    /\ op = "generatePuzzle"
    /\ pc = "heap_copy"
    /\ grid \in {PatternGrid, SwappedGrid}
    /\ entry = grid
    /\ stack = <<>>
    /\ retval = FALSE
    /\ rng = -1
    /\ args = NoArgs
    /\ gen = NoGen
    /\ uniq = NoUniq
    /\ heap = [i \in 1 .. GRID_SIZE |-> grid[i - 1]]
    /\ refs = [NoRefs EXCEPT !["solution"] = [i \in 1 .. GRID_SIZE |-> i]]
    /\ game = NoGame
    /\ clock = 0
    /\ env = NoEnv
    /\ storage = NoStorage

NextCopy ==
    \/ HeapCopySolution \/ HeapRemove \/ HeapGenerateReturn
    \/ HeapNewGame \/ HeapSaveToHistory \/ HeapInput

SpecCopy == InitCopy /\ [][NextCopy]_vars

(***************************************************************************)
(* C17: a grid made by copyGrid equals its original cell for cell and      *)
(* shares no row with it or with any other grid: a write to a cell of one  *)
(* grid changes that cell of that grid and no cell of any other grid,      *)
(* copy or original.  In particular the puzzle and the solution returned   *)
(* by generatePuzzle share no row.                                         *)
(***************************************************************************)
CopiedFrom ==
    [n \in RefNames |->
        CASE n = "puzzle" -> "solution"
          [] n = "result.puzzle" -> "puzzle"
          [] n = "result.solution" -> "solution"
          [] n = "currentGrid" -> "result.puzzle"
          [] n = "saved" -> "currentGrid"
          [] OTHER -> "solution"]

RowsOf(g) == {g[i] : i \in 1 .. Len(g)}

NoSharedRow ==
    \A m, n \in RefNames : m # n => RowsOf(refs[m]) \cap RowsOf(refs[n]) = {}

C17_Step ==
    \A n \in RefNames :
        IF refs'[n] = <<>> THEN TRUE
        ELSE IF refs'[n] # refs[n]
        THEN Deref(heap', refs'[n]) = Deref(heap, refs[CopiedFrom[n]])
        ELSE \/ Deref(heap', refs'[n]) = Deref(heap, refs[n])
             \/ /\ args'.target = n
                /\ Deref(heap', refs'[n]) =
                       [Deref(heap, refs[n]) EXCEPT ![args'.row][args'.col] = args'.num]

C17_CopyIndependent == [](NoSharedRow) /\ [][C17_Step]_vars

\* The player has changed currentGrid after a copy of it was saved: the
\* saved copy and the returned puzzle differ from it, the puzzle from the
\* solution.
C17_Witness ==
    /\ pc = "heap_play"
    /\ refs["saved"] # <<>>
    /\ Deref(heap, refs["currentGrid"]) # Deref(heap, refs["saved"])
    /\ Deref(heap, refs["currentGrid"]) # Deref(heap, refs["result.puzzle"])
    /\ Deref(heap, refs["saved"]) # Deref(heap, refs["result.puzzle"])
    /\ Deref(heap, refs["puzzle"]) # Deref(heap, refs["solution"])
    /\ Deref(heap, refs["result.solution"]) = Deref(heap, refs["solution"])

(***************************************************************************)
(* C18: isValidGrid, isComplete and getConflicts return with every cell    *)
(* of the grid as it was at the call, every cell cleared for its retest    *)
(* restored, also when isValidGrid returns early at a conflicting cell.    *)
(***************************************************************************)
C18_GridRestored ==
    (Returned("isValidGrid") \/ Returned("isComplete") \/ Returned("getConflicts")) =>
        grid = entry

\* isValidGrid has returned false at a conflicting cell of a grid that
\* also has empty cells.
C18_Witness ==
    /\ Returned("isValidGrid") /\ ~retval
    /\ HasDuplicate(entry)
    /\ EmptyCells(entry) # {}
    /\ grid = entry

(***************************************************************************)
(* LiveRemove: SpecRemove with the program always taking its next step.    *)
(***************************************************************************)
LiveRemove == SpecRemove /\ WF_vars(NextRemove)

(***************************************************************************)
(* C19: the removal loop terminates.  At every step removed <= attempts,   *)
(* removed <= cellsToRemove and attempts <= 2 * cellsToRemove; the         *)
(* positions are pairwise distinct and the loop has attempted exactly the  *)
(* positions before the one it is at, each once; when removed has reached  *)
(* cellsToRemove or attempts 2 * cellsToRemove the next step leaves the    *)
(* loop; and generatePuzzle eventually returns.                            *)
(***************************************************************************)
Target == 81 - DIFFICULTY_CONFIG[args.difficulty].filledCells

C19_Counters ==
    InRemovalLoop =>
        /\ gen.removed <= gen.attempts
        /\ gen.removed <= Target
        /\ gen.attempts <= 2 * Target
        /\ gen.attempts <= 81
        /\ gen.attempts = IF pc \in {"hu_call", "gen_checked"} THEN gen.next
                          ELSE gen.next - 1
        /\ \A i, j \in 1 .. Len(gen.positions) :
              i # j => gen.positions[i] # gen.positions[j]

C19_Stops ==
    (pc = "gen_loop" /\ (gen.removed = Target \/ gen.attempts = 2 * Target)) =>
        /\ pc' = "gen_return"
        /\ grid' = grid

C19_Terminates ==
    [](C19_Counters) /\ [][C19_Stops]_<<pc, gen, grid>> /\ <>(GenerateReturned)

\* The loop has stopped at removed = cellsToRemove with positions left.
C19_Witness ==
    /\ GenerateReturned
    /\ gen.removed = Target
    /\ gen.next <= Len(gen.positions)
    /\ gen.attempts < 2 * Target

(***************************************************************************)
(* C20: for easy and medium the result has exactly the nominal number of   *)
(* filled cells, 35 and 28: every attempt is a removal, and the loop ends  *)
(* at removed = cellsToRemove, before the cap on the attempts.             *)
(***************************************************************************)
C20_ExactTarget ==
    /\ (InRemovalLoop /\ args.difficulty \in {"easy", "medium"}) =>
          /\ gen.removed = gen.attempts
          /\ Cardinality(EmptyCells(grid)) = gen.removed
          /\ pc \in {"gen_loop", "gen_return"}
          /\ pc = "gen_return" => gen.removed = Target
    /\ (GenerateReturned /\ gen.returned.difficulty = "easy") =>
          gen.returned.filledCells = 35
    /\ (GenerateReturned /\ gen.returned.difficulty = "medium") =>
          gen.returned.filledCells = 28

\* A medium puzzle returned with 53 cells removed in 53 attempts.
C20_Witness ==
    /\ GenerateReturned
    /\ gen.returned.difficulty = "medium"
    /\ Cardinality(EmptyCells(gen.returned.puzzle)) = 53
    /\ gen.attempts = 53

CellA == Pos(0, 0)

CellB == Pos(0, 2)

CellC == Pos(1, 0)

CellG == Pos(0, 1)

MaxMoves == 2

MaxTicks == 4

EasyBlanks ==
    {Pos(RemovalOrder[k] \div GRID_SIZE, RemovalOrder[k] % GRID_SIZE) :
        k \in 1 .. (GRID_SIZE * GRID_SIZE - DIFFICULTY_CONFIG["easy"].filledCells)}

EasyPuzzle == Blank(PatternGrid, EasyBlanks)

\* The stored state of a game of EasyPuzzle in which the cells of E are the
\* ones still empty.
GameInProgress(E) ==
    [puzzle |-> EasyPuzzle, solution |-> PatternGrid,
     currentGrid |-> Blank(PatternGrid, E),
     isInitial |-> createInitialFlags(EasyPuzzle),
     selectedCell |-> NoCell, difficulty |-> "easy", status |-> "playing",
     startTime |-> 0, elapsedTime |-> 0, hintsUsed |-> 0,
     conflicts |-> getConflicts(Blank(PatternGrid, E)).value,
     gameHistory |-> <<>>, isPaused |-> FALSE, id |-> NoId, name |-> NoName]

Stored(E) == saveCurrentGame(NoStorage, GameInProgress(E), 0)

Scenarios ==
    {[storage |-> Stored({CellA, CellB}), rng |-> 0,
      env |-> [NoEnv EXCEPT !.cells = {CellA, CellB, CellG}, !.numbers = {1, 3},
                            !.clears = {CellA, CellG}, !.moves = MaxMoves]],
     [storage |-> Stored({CellA, CellB}), rng |-> 0,
      env |-> [NoEnv EXCEPT !.cells = {CellA}, !.numbers = {1}, !.clears = {CellA},
                            !.selects = {CellA}, !.moves = 1,
                            !.pauses = Unlimited]],
     [storage |-> Stored({CellA, CellC}), rng |-> 0,
      env |-> [NoEnv EXCEPT !.cells = {CellA}, !.numbers = {1},
                            !.moves = Unlimited]],
     [storage |-> Stored({CellA}), rng |-> 0,
      env |-> [NoEnv EXCEPT !.cells = {CellA}, !.numbers = {1}, !.moves = 1,
                            !.pauses = Unlimited,
                            !.maxClock = MaxTicks * ClockStep]],
     [storage |-> Stored({CellA}), rng |-> 0,
      env |-> [NoEnv EXCEPT !.cells = {CellA}, !.numbers = {1}, !.moves = 1,
                            !.newGames = 1, !.difficulties = {"easy"}]],
     [storage |-> NoStorage, rng |-> 0,
      env |-> [NoEnv EXCEPT !.cells = {CellA, CellG}, !.numbers = {1},
                            !.selects = {CellA}, !.moves = 2, !.pauses = 1,
                            !.newGames = 1, !.difficulties = {"easy"}]]}

StoreScenarios ==
    {[storage |-> Stored({CellA, CellB}), rng |-> 0,
      env |-> [NoEnv EXCEPT !.saves = MAX_SAVED_GAMES + 1, !.names = {"a"},
                            !.maxClock = ClockStep]],
     [storage |-> Stored({CellA, CellB}), rng |-> 0,
      env |-> [NoEnv EXCEPT !.saves = 3, !.loads = 1, !.deletes = 1,
                            !.names = {"a", ""}]]}

\* GameController.init, lines 461-470: the current game, if one is stored,
\* is loaded.
init(st, now) ==
    LET w == [heap |-> <<>>, game |-> NoGame, storage |-> st] IN
    IF st.currentGame = <<>> THEN w
    ELSE LET savedGame == st.currentGame[1].state IN
         Collect(loadGameState(w, savedGame, savedGame.id, savedGame.name, now))

Constructed(scenarios) ==
    /\ op = "idle"
    /\ pc = "idle"
    /\ grid = createEmptyGrid
    /\ entry = createEmptyGrid
    /\ stack = <<>>
    /\ retval = FALSE
    /\ args = NoArgs
    /\ gen = NoGen
    /\ uniq = NoUniq
    /\ refs = NoRefs
    /\ clock = 0
    /\ \E s \in scenarios :
          /\ rng = s.rng
          /\ env = s.env
          /\ storage = s.storage
          /\ heap = init(s.storage, 0).heap
          /\ game = init(s.storage, 0).game

InitGame == Constructed(Scenarios)

NextGame ==
    \/ NewGameCall
    \/ GenerateComplete \/ SolveCall \/ SolveLoop \/ SolveReturn
    \/ GenerateCopy \/ GenerateShuffle \/ GenerateLoop \/ GenerateReturn
    \/ NewGameReturn
    \/ InputNumber \/ ClearCell \/ SelectCell \/ GetHint \/ Undo
    \/ TogglePause \/ TimerTick \/ ClockAdvance

SpecGame == InitGame /\ [][NextGame]_vars

InitStore == Constructed(StoreScenarios)

NextStore == SaveGame \/ LoadGame \/ DeleteSavedGame \/ ClockAdvance

SpecStore == InitStore /\ [][NextStore]_vars

(***************************************************************************)
(* The vocabulary of the claims about the controller: the contents of the  *)
(* current grid and of the history, and the steps that are a call of a     *)
(* method (a call leaves its name in op; the clock stands still during     *)
(* it).                                                                    *)
(***************************************************************************)
InGame == game.status # "menu"

CurrentGrid == Deref(heap, game.currentGrid)

Puzzle == Deref(heap, game.puzzle)

HistoryGrid(i) == Deref(heap, game.gameHistory[i].grid)

History ==
    [i \in 1 .. Len(game.gameHistory) |->
        [grid |-> HistoryGrid(i), hintsUsed |-> game.gameHistory[i].hintsUsed]]

CallOf(names) == pc = "idle" /\ pc' = "idle" /\ clock' = clock /\ op' \in names

Givens == {p \in Positions : game.isInitial[p.row][p.col]}

gameVars == <<op, pc, args, heap, game, storage, clock, env>>

(***************************************************************************)
(* C22: once a game is on, every given of the puzzle (isInitial true)      *)
(* holds its puzzle value in currentGrid and in every grid of the history, *)
(* and is not empty; a call of inputNumber or clearCell on a given changes *)
(* neither currentGrid nor gameHistory; a hint that changes the grid       *)
(* changes one cell, which was empty.                                      *)
(***************************************************************************)
C22_GivensKept ==
    InGame =>
        \A p \in Givens :
            /\ Puzzle[p.row][p.col] # 0
            /\ CurrentGrid[p.row][p.col] = Puzzle[p.row][p.col]
            /\ \A i \in 1 .. Len(game.gameHistory) :
                   HistoryGrid(i)[p.row][p.col] = Puzzle[p.row][p.col]

C22_Step ==
    /\ (InGame /\ CallOf({"inputNumber", "clearCell"})
            /\ Pos(args'.row, args'.col) \in Givens) =>
          /\ game'.currentGrid = game.currentGrid
          /\ game'.gameHistory = game.gameHistory
          /\ heap' = heap
    /\ (InGame /\ CallOf({"getHint"}) /\ Deref(heap', game'.currentGrid) # CurrentGrid) =>
          \E p \in Positions :
              /\ CurrentGrid[p.row][p.col] = 0
              /\ p \notin Givens
              /\ \A q \in Positions \ {p} :
                     Deref(heap', game'.currentGrid)[q.row][q.col] =
                         CurrentGrid[q.row][q.col]

C22_InitialCellsKept == [](C22_GivensKept) /\ [][C22_Step]_gameVars

\* inputNumber has been called on the given G, after a hint, a change and
\* the undo of that change.
C22_Witness ==
    /\ InGame
    /\ op = "inputNumber"
    /\ Pos(args.row, args.col) \in Givens
    /\ Playing(game)
    /\ env.moves = 0
    /\ game.hintsUsed = 1
    /\ Len(game.gameHistory) = 1

(***************************************************************************)
(* C23: the status goes from 'playing' to 'completed' in a call of         *)
(* inputNumber or getHint that leaves currentGrid without an empty cell    *)
(* and without a conflict, and in no other step; every such call           *)
(* completes the game, so a game that is being played has an empty cell    *)
(* or a conflict; a completed game has neither, and stays completed until  *)
(* newGame or loadGame.                                                    *)
(***************************************************************************)
C23_Status ==
    /\ game.status = "completed" => IsSolutionGrid(CurrentGrid)
    /\ game.status = "playing" => ~IsSolutionGrid(CurrentGrid)

C23_Step ==
    /\ (game.status = "playing" /\ game'.status = "completed") =>
          /\ CallOf({"inputNumber", "getHint"})
          /\ Deref(heap', game'.currentGrid) # CurrentGrid
    /\ (game.status = "completed" /\ game'.status # "completed") =>
          /\ op' \in {"newGame", "loadGame"}
          /\ op # op'
    /\ (game.status # "playing" /\ game'.status = "completed") =>
          game.status = "completed"

C23_Completion == [](C23_Status) /\ [][C23_Step]_gameVars

\* The second of two hints has completed the game.
C23_Witness ==
    /\ game.status = "completed"
    /\ op = "getHint"
    /\ game.hintsUsed = 2
    /\ Len(game.gameHistory) = 2

(***************************************************************************)
(* C24: gameHistory never holds more than 20 entries; a change made when   *)
(* it holds 20 drops the oldest entry and appends one, the other 19        *)
(* moving up in order; undo takes the entries back from the newest, one    *)
(* for each call, so at most 20 changes in a row can be undone.            *)
(***************************************************************************)
C24_Bounded == Len(game.gameHistory) <= maxHistory

C24_Step ==
    /\ (InGame /\ CallOf({"inputNumber", "clearCell", "getHint"})
            /\ Len(game.gameHistory) = maxHistory
            /\ game'.gameHistory # game.gameHistory) =>
          /\ Len(game'.gameHistory) = maxHistory
          /\ \A i \in 1 .. (maxHistory - 1) : History'[i] = History[i + 1]
          /\ History'[maxHistory].grid = CurrentGrid
    /\ (InGame /\ CallOf({"undo"}) /\ Playing(game) /\ game.gameHistory # <<>>) =>
          /\ Len(game'.gameHistory) = Len(game.gameHistory) - 1
          /\ \A i \in 1 .. Len(game'.gameHistory) : History'[i] = History[i]
          /\ Deref(heap', game'.currentGrid) = History[Len(History)].grid

C24_HistoryBounded == [](C24_Bounded) /\ [][C24_Step]_gameVars

\* The history is full and its oldest entry, the grid with A empty, is gone.
C24_Witness ==
    /\ op = "inputNumber"
    /\ Len(game.gameHistory) = maxHistory
    /\ HistoryGrid(1)[CellA.row][CellA.col] # 0
    /\ CellA \notin Givens

(***************************************************************************)
(* C25: a change that is accepted (a call of inputNumber, clearCell or     *)
(* getHint that changes the history) stores the grid and the number of     *)
(* hints as they were before it, and leaves the entries it keeps as they   *)
(* were; undo, while playing with a history that is not empty, puts back   *)
(* the grid and the number of hints of the newest entry, those of before   *)
(* the most recent change not yet undone, and removes that entry only; no  *)
(* grid of the history shares a row with currentGrid or with another       *)
(* entry, so a write to currentGrid alters none of them.                   *)
(***************************************************************************)
GameGrids == GameRoots(game)

C25_Apart ==
    \A i, j \in 1 .. Len(GameGrids) :
        i # j => RowsOf(GameGrids[i]) \cap RowsOf(GameGrids[j]) = {}

C25_Step ==
    /\ (InGame /\ CallOf({"inputNumber", "clearCell", "getHint"})
            /\ game'.gameHistory # game.gameHistory) =>
          LET n == Len(game.gameHistory)
              kept == IF n = maxHistory THEN 1 ELSE 0
          IN  /\ Len(game'.gameHistory) = n + 1 - kept
              /\ History'[n + 1 - kept] =
                     [grid |-> CurrentGrid, hintsUsed |-> game.hintsUsed]
              /\ \A i \in 1 .. (n - kept) : History'[i] = History[i + kept]
    /\ (InGame /\ CallOf({"undo"}) /\ Playing(game) /\ game.gameHistory # <<>>) =>
          LET n == Len(game.gameHistory) IN
          /\ Deref(heap', game'.currentGrid) = History[n].grid
          /\ game'.hintsUsed = History[n].hintsUsed
          /\ History' = SubSeq(History, 1, n - 1)

C25_UndoRestores == [](C25_Apart) /\ [][C25_Step]_gameVars

\* The first change has been undone: the history is empty again and the
\* grid is the one the game was resumed with, stored by the autoSave of undo.
C25_Witness ==
    /\ InGame
    /\ op = "undo"
    /\ Playing(game)
    /\ game.hintsUsed = 0
    /\ game.gameHistory = <<>>
    /\ env.moves = MaxMoves - 1
    /\ CurrentGrid = storage.currentGame[1].state.currentGrid
    /\ Cardinality(EmptyCells(CurrentGrid)) = 2

(***************************************************************************)
(* C26: once a game is on (after newGame, or after the stored game was     *)
(* loaded) and after every call, gameState.conflicts is what getConflicts  *)
(* returns for currentGrid: the cells whose value a peer holds too, in     *)
(* row-major order.                                                        *)
(***************************************************************************)
C26_ConflictsCurrent ==
    InGame =>
        /\ game.conflicts = getConflicts(CurrentGrid).value
        /\ SeqToSet(game.conflicts) = {p \in Positions : InConflict(CurrentGrid, p)}

\* An undo has brought back a grid with a conflict.
C26_Witness ==
    /\ InGame
    /\ op = "undo"
    /\ game.conflicts # <<>>
    /\ Len(game.gameHistory) = 1

(***************************************************************************)
(* C27: when no game is being played (the status is not 'playing') or the  *)
(* game is paused, a call of inputNumber, clearCell, selectCell, getHint   *)
(* or undo leaves currentGrid, gameHistory, hintsUsed, conflicts,          *)
(* selectedCell and status as they are; togglePause changes isPaused when  *)
(* the status is 'playing', and only then.                                 *)
(***************************************************************************)
C27_Step ==
    /\ (~Playing(game)
            /\ CallOf({"inputNumber", "clearCell", "selectCell", "getHint", "undo"})) =>
          /\ heap' = heap
          /\ game'.currentGrid = game.currentGrid
          /\ game'.gameHistory = game.gameHistory
          /\ game'.hintsUsed = game.hintsUsed
          /\ game'.conflicts = game.conflicts
          /\ game'.selectedCell = game.selectedCell
          /\ game'.status = game.status
    /\ CallOf({"togglePause"}) =>
          (game'.isPaused # game.isPaused) <=> (game.status = "playing")
    /\ (game'.isPaused # game.isPaused /\ op' # "togglePause") =>
          op' \in {"newGame", "loadGame"}

C27_Frame == [][C27_Step]_gameVars

\* inputNumber has been called on an empty cell of a paused game.
C27_Witness ==
    /\ InGame
    /\ op = "inputNumber"
    /\ game.status = "playing"
    /\ game.isPaused
    /\ CurrentGrid[args.row][args.col] = 0
    /\ args.num # 0

(***************************************************************************)
(* C28, as claimed: elapsedTime does not change while the game is paused,  *)
(* and neither it nor the time recorded at the completion of the game      *)
(* exceeds the time for which the game was played and not paused           *)
(* (env.played, in milliseconds).  The code does not do this: startTime    *)
(* is not moved when the game is resumed, so the first tick after a        *)
(* resume, and completeGame, count the pause.                              *)
(***************************************************************************)
C28_OnlyPlayed ==
    /\ InGame => game.elapsedTime * 1000 <= env.played
    /\ (game.status = "completed" /\ storage.progress.gamesCompleted = 1) =>
          storage.progress.totalTime * 1000 <= env.played

C28_Step == (game.isPaused /\ game'.isPaused) => game'.elapsedTime = game.elapsedTime

C28_AsClaimed == [](C28_OnlyPlayed) /\ [][C28_Step]_gameVars

(***************************************************************************)
(* C29, as claimed: the list of saved games never holds more than          *)
(* MAX_SAVED_GAMES entries, no two of them with the same id; saveGame on   *)
(* a full list drops one entry, one whose savedAt is the smallest, and     *)
(* appends the new game.  The code does not keep the ids distinct: a game  *)
(* that was loaded from the list carries its id, which replaces the new    *)
(* one when that game is saved again.                                      *)
(***************************************************************************)
SavedGames == storage.savedGames

Count(games, e) == Cardinality({i \in 1 .. Len(games) : games[i] = e})

C29_List ==
    /\ Len(SavedGames) <= MAX_SAVED_GAMES
    /\ \A i, j \in 1 .. Len(SavedGames) : i # j => SavedGames[i].id # SavedGames[j].id

C29_Step ==
    (CallOf({"saveGame"}) /\ Len(SavedGames) = MAX_SAVED_GAMES
        /\ game.status = "playing") =>
      /\ Len(SavedGames') = MAX_SAVED_GAMES
      /\ SavedGames'[MAX_SAVED_GAMES].savedAt = clock
      /\ SavedGames'[MAX_SAVED_GAMES].state = Snapshot(heap, game)
      /\ \E i \in 1 .. MAX_SAVED_GAMES :
            /\ \A j \in 1 .. MAX_SAVED_GAMES :
                   SavedGames[i].savedAt <= SavedGames[j].savedAt
            /\ \A j \in 1 .. MAX_SAVED_GAMES :
                   Count(SubSeq(SavedGames', 1, MAX_SAVED_GAMES - 1), SavedGames[j]) =
                       Count(SavedGames, SavedGames[j])
                           - (IF SavedGames[j] = SavedGames[i] THEN 1 ELSE 0)

C29_AsClaimed == [](C29_List) /\ [][C29_Step]_gameVars

====
